---- MODULE Spec2Model ----
(***************************************************************************)
(* A model of the PluginSystem class of plugify: the plugin registry, the  *)
(* hook resolver with its cache, and the four dispatch strategies.         *)
(*                                                                         *)
(* Arrays are objects: every array the class creates lives in `heap` under *)
(* a reference, so that aliasing, in-place mutation (push, length = 0) and *)
(* reference identity (toBe) are what they are in the source.              *)
(***************************************************************************)
EXTENDS Integers, Sequences, FiniteSets, TLC

(***************************************************************************)
(* Inputs: hook names and plugin objects.                                  *)
(***************************************************************************)
HookNames == {"h1", "h2"}

\* The value found under a key of a plugin or of its `hooks` container:
\*   "absent"  the key is not there            (`k in o` is false)
\*   "undef"   the key is there, value undefined (falsy, not callable)
\*   "truthy"  a truthy value that is no function (e.g. 42)
\*   "fn"      a function
\* `hooks` itself is "absent", "null", "nonobject" (e.g. a number) or "object".
\* `priority` is the empty set when the plugin has none, else {n}.
PluginObjects ==
  << [name |-> "a", priority |-> {}, hooks |-> "null",
      direct |-> [h1 |-> "fn", h2 |-> "absent"],
      nested |-> [h1 |-> "absent", h2 |-> "absent"]],
     [name |-> "b", priority |-> {0}, hooks |-> "object",
      direct |-> [h1 |-> "fn", h2 |-> "absent"],
      nested |-> [h1 |-> "fn", h2 |-> "fn"]],
     [name |-> "c", priority |-> {-1}, hooks |-> "object",
      direct |-> [h1 |-> "fn", h2 |-> "absent"],
      nested |-> [h1 |-> "absent", h2 |-> "undef"]],
     [name |-> "a", priority |-> {2}, hooks |-> "object",
      direct |-> [h1 |-> "undef", h2 |-> "truthy"],
      nested |-> [h1 |-> "fn", h2 |-> "fn"]],
     [name |-> "c", priority |-> {1}, hooks |-> "nonobject",
      direct |-> [h1 |-> "absent", h2 |-> "fn"],
      nested |-> [h1 |-> "absent", h2 |-> "absent"]],
     [name |-> "b", priority |-> {1}, hooks |-> "absent",
      direct |-> [h1 |-> "fn", h2 |-> "truthy"],
      nested |-> [h1 |-> "absent", h2 |-> "absent"]] >>

PluginIds == DOMAIN PluginObjects

Names == {PluginObjects[p].name : p \in PluginIds}

\* PluginInput: a plugin, an array of plugins, or a factory returning either.
PlainInput(p) == [kind |-> "plugin", ps |-> <<p>>]
ArrayInput(ps) == [kind |-> "array", ps |-> ps]
FactoryInput(ps, isArray) == [kind |-> "factory", ps |-> ps, isArray |-> isArray]

\* The argument lists use() is called with (the plugin without a `hooks`
\* container, the last one, is registered through DispatchInputs).
UseInputs ==
  {<<>>}
  \cup {<<PlainInput(p)>> : p \in PluginIds \ {Len(PluginObjects)}}
  \cup {<<PlainInput(1), PlainInput(4)>>, <<PlainInput(5), PlainInput(2)>>,
        <<ArrayInput(<<3, 2>>), PlainInput(1)>>,
        <<FactoryInput(<<4>>, FALSE), ArrayInput(<<>>)>>,
        <<FactoryInput(<<2, 5, 3>>, TRUE)>>,
        <<PlainInput(3), FactoryInput(<<1, 2>>, TRUE)>>}

NoRef == 0

\* SpecReentrant: the calls of the API in one run (a dispatch, what its hooks
\* call while it is in flight, and what is called after that).
MaxCalls == 3

VARIABLES
  heap,           \* reference -> [items, frozen]: the arrays of the program
  plugins,        \* this.plugins (a reference)
  hookCache,      \* this.hookCache: hook name -> reference, NoRef for no entry
  sortedPlugins,  \* this.sortedPlugins (a reference)
  isDirty,        \* this.isDirty
  disp,           \* the dispatches in flight, oldest first
  lastRet,        \* per hook: what the latest getPluginsWithHook returned
                  \*   since the last use/remove/clear
  event,          \* what the latest step did (returned value, notices)
  calls           \* SpecReentrant: the calls of the API made so far

vars ==
  <<heap, plugins, hookCache, sortedPlugins, isDirty, disp, lastRet, event, calls>>

(***************************************************************************)
(* Helpers on sequences and the heap.                                      *)
(***************************************************************************)
Range(s) == {s[i] : i \in DOMAIN s}

HookSeq == <<"h1", "h2">>

RECURSIVE Filter(_, _)
Filter(s, keep) ==
  IF s = <<>> THEN <<>>
  ELSE (IF Head(s) \in keep THEN <<Head(s)>> ELSE <<>>) \o Filter(Tail(s), keep)

\* The program state as one value: the registry object `this`, the heap its
\* fields point into, and the dispatches in flight.
This ==
  [heap |-> heap, plugins |-> plugins, hookCache |-> hookCache,
   sortedPlugins |-> sortedPlugins, isDirty |-> isDirty,
   disp |-> disp, lastRet |-> lastRet]

Items(r, ref) == r.heap[ref].items

\* `new Array`: a reference not in use (the heap's references are 1..n).
NewRef(hp) == Cardinality(DOMAIN hp) + 1

Alloc(r, ref, items, frozen) ==
  [r EXCEPT !.heap = (ref :> [items |-> items, frozen |-> frozen]) @@ r.heap]

SetItems(r, ref, items) == [r EXCEPT !.heap[ref].items = items]

\* A caller holding the array `ref` writes to it (push, splice, an index or
\* length assignment) so that it holds `items`: the write takes effect unless
\* the array is frozen (`readonly T[]` is a compile-time type only).
CallerWrite(r, ref, items) ==
  IF r.heap[ref].frozen THEN r ELSE SetItems(r, ref, items)

(***************************************************************************)
(* The registry (use, remove, clear, getPlugins).                          *)
(***************************************************************************)
\* Faulty variant of the loop of flattenPlugins: what a factory returns goes
\* to the front of `flattened` (unshift).
RECURSIVE flattenLoopFactoryFirst(_, _)
flattenLoopFactoryFirst(pluginInputs, acc) ==
  IF pluginInputs = <<>> THEN acc
  ELSE LET input == Head(pluginInputs)
           next == [acc EXCEPT !.at = @ + 1]
       IN IF input.kind = "factory"
          THEN LET result == input.ps
                   called == [next EXCEPT !.called = Append(@, acc.at)]
               IN flattenLoopFactoryFirst(
                    Tail(pluginInputs),
                    [called EXCEPT !.flattened = IF input.isArray THEN result \o @
                                                 ELSE <<result[1]>> \o @])
          ELSE IF input.kind = "array"
          THEN flattenLoopFactoryFirst(Tail(pluginInputs),
                                       [next EXCEPT !.flattened = @ \o input.ps])
          ELSE flattenLoopFactoryFirst(Tail(pluginInputs),
                                       [next EXCEPT !.flattened = Append(@, input.ps[1])])

\* The loop of flattenPlugins: acc is [flattened, called, at], `at` the
\* position of the input the loop is at and `called` the positions of the
\* inputs called as a factory, one entry per call.
RECURSIVE flattenLoop(_, _)
flattenLoop(pluginInputs, acc) ==
  IF pluginInputs = <<>> THEN acc
  ELSE LET input == Head(pluginInputs)
           next == [acc EXCEPT !.at = @ + 1]
       IN IF input.kind = "factory"
          THEN LET result == input.ps
                   called == [next EXCEPT !.called = Append(@, acc.at)]
               IN flattenLoop(
                    Tail(pluginInputs),
                    [called EXCEPT !.flattened = IF input.isArray THEN @ \o result
                                                 ELSE Append(@, result[1])])
          ELSE IF input.kind = "array"
          THEN flattenLoop(Tail(pluginInputs),
                           [next EXCEPT !.flattened = @ \o input.ps])
          ELSE flattenLoop(Tail(pluginInputs),
                           [next EXCEPT !.flattened = Append(@, input.ps[1])])

\* const flattened = []
NoneFlattened == [flattened |-> <<>>, called |-> <<>>, at |-> 1]

flattenPlugins(pluginInputs) == flattenLoop(pluginInputs, NoneFlattened).flattened

\* Faulty variant: marks the registry dirty and keeps the hook cache.
invalidateCacheDirtyOnly(r) == [r EXCEPT !.isDirty = TRUE]

invalidateCache(r) ==
  [r EXCEPT !.isDirty = TRUE, !.hookCache = [h \in HookNames |-> NoRef]]

\* Faulty variant of the loop of use(): an accepted name is not added to the
\* set of existing names.
RECURSIVE useLoopForgetNames(_, _)
useLoopForgetNames(newPlugins, acc) ==
  IF newPlugins = <<>> THEN acc
  ELSE LET plugin == Head(newPlugins)
           name == PluginObjects[plugin].name
       IN IF name \in acc.names
          THEN useLoopForgetNames(Tail(newPlugins),
                                  [acc EXCEPT !.warned = Append(@, plugin)])
          ELSE useLoopForgetNames(Tail(newPlugins),
                                  [acc EXCEPT !.items = Append(@, plugin)])

\* Faulty variant of the loop of use(): the loop ends at the first duplicate.
RECURSIVE useLoopStopAtDuplicate(_, _)
useLoopStopAtDuplicate(newPlugins, acc) ==
  IF newPlugins = <<>> THEN acc
  ELSE LET plugin == Head(newPlugins)
           name == PluginObjects[plugin].name
       IN IF name \in acc.names
          THEN [acc EXCEPT !.warned = Append(@, plugin)]
          ELSE useLoopStopAtDuplicate(Tail(newPlugins),
                                      [acc EXCEPT !.items = Append(@, plugin),
                                                  !.names = @ \cup {name}])

\* The loop of use(): acc is [items, names, warned].
RECURSIVE useLoop(_, _)
useLoop(newPlugins, acc) ==
  IF newPlugins = <<>> THEN acc
  ELSE LET plugin == Head(newPlugins)
           name == PluginObjects[plugin].name
       IN IF name \in acc.names
          THEN useLoop(Tail(newPlugins),
                       [acc EXCEPT !.warned = Append(@, plugin)])
          ELSE useLoop(Tail(newPlugins),
                       [acc EXCEPT !.items = Append(@, plugin),
                                   !.names = @ \cup {name}])

\* use(...pluginInputs): [reg, warned].
use(r, pluginInputs) ==
  LET newPlugins == flattenPlugins(pluginInputs)
      existingNames == {PluginObjects[p].name : p \in Range(Items(r, r.plugins))}
      acc == useLoop(newPlugins,
                     [items |-> Items(r, r.plugins), names |-> existingNames,
                      warned |-> <<>>])
  IN [reg |-> invalidateCache(SetItems(r, r.plugins, acc.items)),
      warned |-> acc.warned]

\* Faulty variant of remove(): the plugins registered after the removed one go
\* with it.
RECURSIVE UpTo(_, _)
UpTo(s, pluginName) ==
  IF s = <<>> \/ PluginObjects[Head(s)].name = pluginName THEN <<>>
  ELSE <<Head(s)>> \o UpTo(Tail(s), pluginName)

removeAndFollowing(r, pluginName) ==
  LET originalLength == Len(Items(r, r.plugins))
      kept == UpTo(Items(r, r.plugins), pluginName)
      ref == NewRef(r.heap)
      r1 == [Alloc(r, ref, kept, FALSE) EXCEPT !.plugins = ref]
  IN IF Len(kept) # originalLength THEN invalidateCache(r1) ELSE r1

\* Faulty variant of remove(): the cache is invalidated whatever was removed.
removeAlwaysInvalidate(r, pluginName) ==
  LET kept == Filter(Items(r, r.plugins),
                     {p \in PluginIds : PluginObjects[p].name # pluginName})
      ref == NewRef(r.heap)
  IN invalidateCache([Alloc(r, ref, kept, FALSE) EXCEPT !.plugins = ref])

\* Faulty variant of remove(): the cache is never invalidated.
removeKeepCache(r, pluginName) ==
  LET kept == Filter(Items(r, r.plugins),
                     {p \in PluginIds : PluginObjects[p].name # pluginName})
      ref == NewRef(r.heap)
  IN [Alloc(r, ref, kept, FALSE) EXCEPT !.plugins = ref]

remove(r, pluginName) ==
  LET originalLength == Len(Items(r, r.plugins))
      kept == Filter(Items(r, r.plugins),
                     {p \in PluginIds : PluginObjects[p].name # pluginName})
      ref == NewRef(r.heap)
      r1 == [Alloc(r, ref, kept, FALSE) EXCEPT !.plugins = ref]
  IN IF Len(kept) # originalLength THEN invalidateCache(r1) ELSE r1

getPlugins(r) == r.plugins

\* What use, remove and clear return: "this" for the registry they were
\* called on ("undefined" for nothing).
useReturn(r, pluginInputs) == "this"

\* Faulty variant: remove() returns nothing when it removed nothing.
removeReturnNothingWhenAbsent(r, pluginName) ==
  IF \E p \in Range(Items(r, r.plugins)) : PluginObjects[p].name = pluginName
  THEN "this" ELSE "undefined"

removeReturn(r, pluginName) == "this"

clearReturn(r) == "this"

\* Faulty variant of clear(): `this.plugins = []`, a new array.
clearIntoNewArray(r) ==
  LET ref == NewRef(r.heap)
      r1 == [Alloc(r, ref, <<>>, FALSE) EXCEPT !.plugins = ref]
      r2 == SetItems(r1, r1.sortedPlugins, <<>>)
  IN [r2 EXCEPT !.isDirty = FALSE, !.hookCache = [h \in HookNames |-> NoRef]]

\* Faulty variant of clear(): the hook cache is kept.
clearKeepCache(r) ==
  LET r1 == SetItems(r, r.plugins, <<>>)
      r2 == SetItems(r1, r1.sortedPlugins, <<>>)
  IN [r2 EXCEPT !.isDirty = FALSE]

clear(r) ==
  LET r1 == SetItems(r, r.plugins, <<>>)
      r2 == SetItems(r1, r1.sortedPlugins, <<>>)
  IN [r2 EXCEPT !.isDirty = FALSE, !.hookCache = [h \in HookNames |-> NoRef]]

(***************************************************************************)
(* The hook resolver (ensureSorted, getPluginsWithHook, getHookFunction).  *)
(***************************************************************************)
\* (p.priority || 0)
Priority(p) ==
  LET pr == PluginObjects[p].priority
  IN IF pr = {} THEN 0 ELSE CHOOSE n \in pr : TRUE

\* Faulty variant of the sort: an element goes before the elements already
\* placed that have its priority (not stable).
RECURSIVE SortInsertUnstable(_, _)
SortInsertUnstable(sorted, p) ==
  IF sorted = <<>> THEN <<p>>
  ELSE IF Priority(Head(sorted)) > Priority(p)
       THEN <<Head(sorted)>> \o SortInsertUnstable(Tail(sorted), p)
       ELSE <<p>> \o sorted

\* Array.prototype.sort with (a, b) => Priority(b) - Priority(a): stable, so an
\* element goes behind every element already placed whose priority is not lower.
RECURSIVE SortInsert(_, _)
SortInsert(sorted, p) ==
  IF sorted = <<>> THEN <<p>>
  ELSE IF Priority(Head(sorted)) >= Priority(p)
       THEN <<Head(sorted)>> \o SortInsert(Tail(sorted), p)
       ELSE <<p>> \o sorted

RECURSIVE SortByPriority(_, _)
SortByPriority(todo, sorted) ==
  IF todo = <<>> THEN sorted
  ELSE SortByPriority(Tail(todo), SortInsert(sorted, Head(todo)))

\* Faulty variant of ensureSorted(): no `if (this.isDirty)`, the plugins are
\* sorted at every call.
ensureSortedAlways(r) ==
  LET ref == NewRef(r.heap)
      its == Items(r, r.plugins)
      r1 == Alloc(r, ref, IF Len(its) = 0 THEN <<>> ELSE SortByPriority(its, <<>>),
                  FALSE)
  IN [r1 EXCEPT !.sortedPlugins = ref, !.isDirty = FALSE]

\* Faulty variant of ensureSorted(): this.plugins is sorted in place, with no
\* copy.
ensureSortedInPlace(r) ==
  IF r.isDirty
  THEN LET its == Items(r, r.plugins)
           r1 == SetItems(r, r.plugins, SortByPriority(its, <<>>))
       IN [r1 EXCEPT !.sortedPlugins = r.plugins, !.isDirty = FALSE]
  ELSE r

ensureSorted(r) ==
  IF r.isDirty
  THEN LET ref == NewRef(r.heap)
           its == Items(r, r.plugins)
           r1 == Alloc(r, ref, IF Len(its) = 0 THEN <<>> ELSE SortByPriority(its, <<>>),
                       FALSE)
       IN [r1 EXCEPT !.sortedPlugins = ref, !.isDirty = FALSE]
  ELSE r

\* The filter predicate of getPluginsWithHook.
HasHook(p, hookName) ==
  LET plugin == PluginObjects[p]
  IN \/ /\ plugin.hooks = "object"
        /\ plugin.nested[hookName] # "absent"
     \/ /\ plugin.direct[hookName] # "absent"
        /\ plugin.direct[hookName] = "fn"

\* Faulty variant of the filter predicate: `hookName in plugin.hooks` is
\* guarded by `plugin.hooks !== undefined` only.
HasHookThrowsUnguarded(p, hookName) ==
  PluginObjects[p].hooks \in {"null", "nonobject"}

\* Whether the filter predicate throws: `hookName in plugin.hooks` is a
\* TypeError unless plugin.hooks is an object, and it is evaluated only behind
\* `plugin.hooks && typeof plugin.hooks === 'object' && plugin.hooks !== null`.
HasHookThrows(p, hookName) ==
  LET hooks == PluginObjects[p].hooks
      truthy == hooks \in {"nonobject", "object"}
      typeofObject == hooks \in {"null", "object"}
      notNull == hooks # "null"
  IN truthy /\ typeofObject /\ notNull /\ hooks # "object"

\* Faulty variant of getPluginsWithHook: when every sorted plugin passes the
\* filter, the sorted array itself is cached and returned, not a copy.
getPluginsWithHookShared(r, hookName) ==
  IF r.hookCache[hookName] # NoRef
  THEN [reg |-> r, ret |-> r.hookCache[hookName]]
  ELSE LET r1 == ensureSorted(r)
           sorted == Items(r1, r1.sortedPlugins)
           pluginsWithHook ==
             Filter(sorted, {p \in PluginIds : HasHook(p, hookName)})
           ref == IF pluginsWithHook = sorted THEN r1.sortedPlugins
                  ELSE NewRef(r1.heap)
           r2 == [(IF pluginsWithHook = sorted THEN r1
                   ELSE Alloc(r1, ref, pluginsWithHook, FALSE))
                    EXCEPT !.hookCache[hookName] = ref]
           empty == NewRef(r2.heap)
       IN IF \E p \in Range(sorted) : HasHookThrows(p, hookName)
          THEN [reg |-> r1, ret |-> NoRef]
          ELSE IF Len(pluginsWithHook) > 0
          THEN [reg |-> r2, ret |-> ref]
          ELSE [reg |-> Alloc(r2, empty, <<>>, TRUE), ret |-> empty]

\* Faulty variant of getPluginsWithHook: the filtered array is assigned to
\* this.plugins as well.
getPluginsWithHookIntoPlugins(r, hookName) ==
  IF r.hookCache[hookName] # NoRef
  THEN [reg |-> r, ret |-> r.hookCache[hookName]]
  ELSE LET r1 == ensureSorted(r)
           pluginsWithHook ==
             Filter(Items(r1, r1.sortedPlugins),
                    {p \in PluginIds : HasHook(p, hookName)})
           ref == NewRef(r1.heap)
           r2 == [Alloc(r1, ref, pluginsWithHook, FALSE)
                    EXCEPT !.hookCache[hookName] = ref, !.plugins = ref]
           empty == NewRef(r2.heap)
       IN IF \E p \in Range(Items(r1, r1.sortedPlugins)) : HasHookThrows(p, hookName)
          THEN [reg |-> r1, ret |-> NoRef]
          ELSE IF Len(pluginsWithHook) > 0
          THEN [reg |-> r2, ret |-> ref]
          ELSE [reg |-> Alloc(r2, empty, <<>>, TRUE), ret |-> empty]

\* getPluginsWithHook(hookName): [reg, ret], ret the reference returned, NoRef
\* when the filter threw (nothing is cached and the exception goes to the
\* caller).
getPluginsWithHook(r, hookName) ==
  IF r.hookCache[hookName] # NoRef
  THEN [reg |-> r, ret |-> r.hookCache[hookName]]
  ELSE LET r1 == ensureSorted(r)
           pluginsWithHook ==
             Filter(Items(r1, r1.sortedPlugins),
                    {p \in PluginIds : HasHook(p, hookName)})
           ref == NewRef(r1.heap)
           r2 == [Alloc(r1, ref, pluginsWithHook, FALSE)
                    EXCEPT !.hookCache[hookName] = ref]
           empty == NewRef(r2.heap)
       IN IF \E p \in Range(Items(r1, r1.sortedPlugins)) : HasHookThrows(p, hookName)
          THEN [reg |-> r1, ret |-> NoRef]
          ELSE IF Len(pluginsWithHook) > 0
          THEN [reg |-> r2, ret |-> ref]
          ELSE [reg |-> Alloc(r2, empty, <<>>, TRUE), ret |-> empty]

\* Faulty variant: the `hooks` container is looked at first,
\* plugin.hooks?.[hookName] || plugin[hookName].
getHookFunctionNestedFirst(p, hookName) ==
  LET plugin == PluginObjects[p]
      d == plugin.direct[hookName]
      n == IF plugin.hooks = "object" THEN plugin.nested[hookName] ELSE "absent"
  IN IF n = "fn" THEN "nested"
     ELSE IF n = "truthy" THEN "value"
     ELSE IF d = "fn" THEN "direct"
     ELSE IF d = "truthy" THEN "value"
     ELSE "none"

\* plugin[hookName] || plugin.hooks?.[hookName]: "direct", "nested" when the
\* value is a function of the plugin, "value" when it is something else that
\* is truthy, "none" when it is undefined.
getHookFunction(p, hookName) ==
  LET plugin == PluginObjects[p]
      d == plugin.direct[hookName]
      n == IF plugin.hooks = "object" THEN plugin.nested[hookName] ELSE "absent"
  IN IF d = "fn" THEN "direct"
     ELSE IF d = "truthy" THEN "value"
     ELSE IF n = "fn" THEN "nested"
     ELSE IF n = "truthy" THEN "value"
     ELSE "none"


(***************************************************************************)
(* The dispatcher (exec, execAll, execAsync, execAllAsync).                *)
(*                                                                         *)
(* A dispatch in flight is a record:                                       *)
(*   kind, hookName                                                        *)
(*   cands    the array the for-of loop iterates (a reference; the loop    *)
(*            reads the array again at every step)                         *)
(*   captured execAllAsync: the promise chain built by map(), one entry    *)
(*            per candidate: [plugin, fn, s, v]                            *)
(*   pos      index of the candidate whose hook runs or is awaited         *)
(*   depth    position on the call stack while a hook of it runs, else 0   *)
(*   awaiting execAsync: the value under `await`, "" when none             *)
(*   invoked  the plugins whose hook was called, in call order             *)
(*   fns      the function called for each of them: "direct" (the plugin's *)
(*            own attribute) or "nested" (the entry of its `hooks`)        *)
(*   raw      the outcome of each of those calls, in call order            *)
(*   log      what each of those calls did (its outcome; for an awaited    *)
(*            call, how the awaited value settled), in the order known     *)
(*   notices  console.warn / console.error calls, in order                 *)
(*   results  execAll: the results array                                   *)
(*   cands0   the candidates at the start of the dispatch                  *)
(*   mutatedAt  how many hooks the dispatch had called when use, remove or *)
(*            clear first ran during it; -1 when none has                  *)
(*   st       "inHook", "awaiting", "open" (execAllAsync between hooks);   *)
(*            "end", "return" when the dispatch is over, "raised" when an  *)
(*            exception left it                                            *)
(***************************************************************************)
\* What a call of a hook function does: returns a value, returns a falsy
\* value (0, '', false), returns null or undefined, throws, returns a Promise.
SyncOutcomes == {"value", "falsy", "null", "undefined", "throw", "promise"}

\* How a pending Promise settles.
Settlements == {"value", "falsy", "null", "undefined", "reject"}

Null == [kind |-> "null", by |-> 0]

Val(kind, p) == [kind |-> kind, by |-> p]

\* Faulty variant: a truthiness test, `if (result)`.
IsPresentTruthy(v) == v.kind \notin {"null", "undefined", "falsy"}

\* result !== null && result !== undefined
IsPresent(v) == v.kind # "null" /\ v.kind # "undefined"

Notice(level, p, hookName) == [level |-> level, plugin |-> p, hookName |-> hookName]

NoDisp == [kind |-> "none"]

\* The depth of the call stack: the hooks that are running, innermost last.
StackDepth(ds) ==
  IF ds = <<>> THEN 0
  ELSE LET depths == {ds[i].depth : i \in DOMAIN ds}
       IN CHOOSE m \in depths : \A n \in depths : n <= m

\* The dispatch whose hook is running now (the top of the call stack).
Top(ds) == CHOOSE i \in DOMAIN ds : ds[i].depth = StackDepth(ds)

NewDispatch(r, kind, hookName, cands) ==
  [kind |-> kind, hookName |-> hookName, cands |-> cands, captured |-> <<>>,
   pos |-> 1, depth |-> 0, awaiting |-> "", invoked |-> <<>>, fns |-> <<>>,
   raw |-> <<>>,
   log |-> <<>>,
   notices |-> <<>>, results |-> <<>>, ret |-> Null, st |-> "loop",
   cands0 |-> IF cands = NoRef THEN <<>> ELSE Items(r, cands), mutatedAt |-> -1]

\* The dispatch when its getPluginsWithHook call threw: the exception leaves
\* the dispatch (an async one returns a rejected promise).
Raised(d) == [d EXCEPT !.st = "raised"]

IsFunction(f) == f \in {"direct", "nested"}

\* Faulty variant of the loop head: no `typeof hookFunction === 'function'`
\* test, whatever getHookFunction gave is called.
forOfNoTypeofCheck(hp, d, depth) ==
  LET items == hp[d.cands].items
  IN IF d.pos > Len(items) THEN [d EXCEPT !.st = "end", !.depth = 0]
     ELSE [d EXCEPT !.st = "inHook", !.depth = depth,
                    !.invoked = Append(@, items[d.pos]),
                    !.fns = Append(@, getHookFunction(items[d.pos], d.hookName))]

\* The head of `for (const plugin of pluginsWithHook)`: from candidate d.pos on,
\* skip the candidates whose hook function is no function and call the first
\* that is one (st "inHook"), or leave the loop (st "end").
RECURSIVE forOf(_, _, _)
forOf(hp, d, depth) ==
  LET items == hp[d.cands].items
  IN IF d.pos > Len(items) THEN [d EXCEPT !.st = "end", !.depth = 0]
     ELSE IF IsFunction(getHookFunction(items[d.pos], d.hookName))
          THEN [d EXCEPT !.st = "inHook", !.depth = depth,
                         !.invoked = Append(@, items[d.pos]),
                         !.fns = Append(@, getHookFunction(items[d.pos], d.hookName))]
          ELSE forOf(hp, [d EXCEPT !.pos = @ + 1], depth)

\* Faulty variant of the loop body: no try/catch, a throw leaves the dispatch.
syncBodyNoCatch(d, p, outcome) ==
  IF outcome = "throw"
  THEN [d EXCEPT !.st = "raised"]
  ELSE IF outcome = "promise"
  THEN [d EXCEPT !.notices = Append(@, Notice("warn", p, d.hookName))]
  ELSE IF IsPresent(Val(outcome, p))
  THEN IF d.kind = "exec"
       THEN [d EXCEPT !.st = "return", !.ret = Val(outcome, p)]
       ELSE [d EXCEPT !.results = Append(@, Val(outcome, p))]
  ELSE d

\* Faulty variant of the loop body: no `instanceof Promise` test, a Promise is
\* a result like any other.
syncBodyNoPromiseCheck(d, p, outcome) ==
  IF outcome = "throw"
  THEN [d EXCEPT !.notices = Append(@, Notice("error", p, d.hookName))]
  ELSE IF IsPresent(Val(outcome, p))
  THEN IF d.kind = "exec"
       THEN [d EXCEPT !.st = "return", !.ret = Val(outcome, p)]
       ELSE [d EXCEPT !.results = Append(@, Val(outcome, p))]
  ELSE d

\* What the loop body of exec / execAll does with the outcome of the hook call.
syncBody(d, p, outcome) ==
  IF outcome = "throw"
  THEN [d EXCEPT !.notices = Append(@, Notice("error", p, d.hookName))]
  ELSE IF outcome = "promise"
  THEN [d EXCEPT !.notices = Append(@, Notice("warn", p, d.hookName))]
  ELSE IF IsPresent(Val(outcome, p))
  THEN IF d.kind = "exec"
       THEN [d EXCEPT !.st = "return", !.ret = Val(outcome, p)]
       ELSE [d EXCEPT !.results = Append(@, Val(outcome, p))]
  ELSE d

\* exec(hookName) and execAll(hookName) up to the first hook call.
exec(r, hookName, depth) ==
  LET g == getPluginsWithHook(r, hookName)
      d == NewDispatch(g.reg, "exec", hookName, g.ret)
  IN [reg |-> g.reg, ret |-> g.ret,
      d |-> IF g.ret = NoRef THEN Raised(d) ELSE forOf(g.reg.heap, d, depth)]

execAll(r, hookName, depth) ==
  LET g == getPluginsWithHook(r, hookName)
      d == NewDispatch(g.reg, "execAll", hookName, g.ret)
  IN [reg |-> g.reg, ret |-> g.ret,
      d |-> IF g.ret = NoRef THEN Raised(d)
            ELSE IF Len(Items(g.reg, g.ret)) = 0
            THEN [d EXCEPT !.st = "end"]
            ELSE forOf(g.reg.heap, d, depth)]

\* execAsync(hookName) up to the first hook call.
execAsync(r, hookName, depth) ==
  LET g == getPluginsWithHook(r, hookName)
      d == NewDispatch(g.reg, "execAsync", hookName, g.ret)
  IN [reg |-> g.reg, ret |-> g.ret,
      d |-> IF g.ret = NoRef THEN Raised(d) ELSE forOf(g.reg.heap, d, depth)]

\* Faulty variant: the value of the hook call is not awaited, the loop goes on
\* at once.
asyncBodyNoAwait(d, p, outcome) ==
  IF outcome = "throw"
  THEN [d EXCEPT !.notices = Append(@, Notice("error", p, d.hookName))]
  ELSE d

\* What execAsync does with the outcome of the hook call: a throw is caught at
\* once, anything else is awaited.
asyncBody(d, p, outcome) ==
  IF outcome = "throw"
  THEN [d EXCEPT !.notices = Append(@, Notice("error", p, d.hookName))]
  ELSE [d EXCEPT !.st = "awaiting", !.awaiting = outcome, !.depth = 0]

\* Faulty variant: a rejection of the awaited value is not caught and leaves
\* the dispatch.
afterAwaitNoCatch(d, p, settled) ==
  IF settled = "reject"
  THEN [d EXCEPT !.awaiting = "", !.st = "raised"]
  ELSE IF IsPresent(Val(settled, p))
  THEN [d EXCEPT !.st = "return", !.ret = Val(settled, p), !.awaiting = ""]
  ELSE [d EXCEPT !.awaiting = "", !.st = "loop"]

\* execAsync after the await: the awaited value has settled as `settled`.
afterAwait(d, p, settled) ==
  IF settled = "reject"
  THEN [d EXCEPT !.notices = Append(@, Notice("error", p, d.hookName)),
                 !.awaiting = "", !.st = "loop"]
  ELSE IF IsPresent(Val(settled, p))
  THEN [d EXCEPT !.st = "return", !.ret = Val(settled, p), !.awaiting = ""]
  ELSE [d EXCEPT !.awaiting = "", !.st = "loop"]

\* The map() of execAllAsync: one promise per candidate.
RECURSIVE mapPromises(_, _)
mapPromises(items, hookName) ==
  IF items = <<>> THEN <<>>
  ELSE LET f == getHookFunction(Head(items), hookName)
       IN <<[plugin |-> Head(items), fn |-> f,
             s |-> IF IsFunction(f) THEN "queued" ELSE "settled", v |-> Null]>>
          \o mapPromises(Tail(items), hookName)

execAllAsync(r, hookName) ==
  LET g == getPluginsWithHook(r, hookName)
      d == NewDispatch(g.reg, "execAllAsync", hookName, g.ret)
      items == IF g.ret = NoRef THEN <<>> ELSE Items(g.reg, g.ret)
  IN [reg |-> g.reg, ret |-> g.ret,
      d |-> IF g.ret = NoRef THEN Raised(d)
            ELSE IF Len(items) = 0
            THEN [d EXCEPT !.st = "end"]
            ELSE [d EXCEPT !.st = "open", !.cands = NoRef,
                           !.captured = mapPromises(items, hookName)]]

\* .then(() => hookFunction(...args)).catch(...): what the chain of candidate
\* d.pos becomes when the hook call has the given outcome.
thenCatch(d, outcome) ==
  LET p == d.captured[d.pos].plugin
  IN IF outcome = "throw"
     THEN [d EXCEPT !.captured[d.pos].s = "settled",
                    !.notices = Append(@, Notice("error", p, d.hookName)),
                    !.depth = 0, !.st = "open"]
     ELSE IF outcome = "promise"
     THEN [d EXCEPT !.captured[d.pos].s = "pending", !.depth = 0, !.st = "open"]
     ELSE [d EXCEPT !.captured[d.pos].s = "settled",
                    !.captured[d.pos].v = Val(outcome, p),
                    !.depth = 0, !.st = "open"]

\* The pending promise of candidate j settles.
settle(d, j, settled) ==
  LET p == d.captured[j].plugin
  IN IF settled = "reject"
     THEN [d EXCEPT !.captured[j].s = "settled",
                    !.notices = Append(@, Notice("error", p, d.hookName))]
     ELSE [d EXCEPT !.captured[j].s = "settled",
                    !.captured[j].v = Val(settled, p)]

\* results.filter((result) => result !== null && result !== undefined)
RECURSIVE presentResults(_)
presentResults(captured) ==
  IF captured = <<>> THEN <<>>
  ELSE (IF IsPresent(Head(captured).v) THEN <<Head(captured).v>> ELSE <<>>)
       \o presentResults(Tail(captured))

\* The advice at the end of the warning for a Promise in a sync dispatch:
\* "Use execAsync instead." in exec, "Use execAllAsync instead." in execAll.
warnAdvice(kind) == IF kind = "exec" THEN "execAsync" ELSE "execAllAsync"

\* The console.warn / console.error calls of a dispatch with their text: who
\* and which hook (notice), and the advice (none in an error).
Messages(d) ==
  [k \in DOMAIN d.notices |->
     [notice |-> d.notices[k],
      advice |-> IF d.notices[k].level = "warn" THEN warnAdvice(d.kind) ELSE ""]]

(***************************************************************************)
(* The PluginSystem built on ExecutionCore (the registry and the resolver  *)
(* are those of Core, statement for statement the ones above).             *)
(*                                                                         *)
(* A run is computed from the candidates and the behaviour of the hooks:   *)
(* for each hook call in turn, [outcome, settled], what the call does and  *)
(* how the promise it returned settles. run is [invoked, messages, ret,    *)
(* results, more], more when a hook is called that has no behaviour left.  *)
(***************************************************************************)
\* Faulty variant of executeHookSync: a truthiness test, `result ? result : null`.
executeHookSyncTruthy(p, hookName, b) ==
  IF ~IsFunction(getHookFunction(p, hookName))
  THEN [called |-> FALSE, result |-> Null, messages |-> <<>>]
  ELSE IF b.outcome = "throw"
  THEN [called |-> TRUE, result |-> Null,
        messages |-> <<[notice |-> Notice("error", p, hookName), advice |-> ""]>>]
  ELSE IF b.outcome = "promise"
  THEN [called |-> TRUE, result |-> Null,
        messages |-> <<[notice |-> Notice("warn", p, hookName),
                        advice |-> "execAsync/execAllAsync"]>>]
  ELSE [called |-> TRUE,
        result |-> IF b.outcome = "value" THEN Val(b.outcome, p) ELSE Null,
        messages |-> <<>>]

\* executeHookSync(plugin, hookName): [called, result, messages], called when
\* the hook function was called.
executeHookSync(p, hookName, b) ==
  IF ~IsFunction(getHookFunction(p, hookName))
  THEN [called |-> FALSE, result |-> Null, messages |-> <<>>]
  ELSE IF b.outcome = "throw"
  THEN [called |-> TRUE, result |-> Null,
        messages |-> <<[notice |-> Notice("error", p, hookName), advice |-> ""]>>]
  ELSE IF b.outcome = "promise"
  THEN [called |-> TRUE, result |-> Null,
        messages |-> <<[notice |-> Notice("warn", p, hookName),
                        advice |-> "execAsync/execAllAsync"]>>]
  ELSE [called |-> TRUE,
        result |-> IF IsPresent(Val(b.outcome, p)) THEN Val(b.outcome, p) ELSE Null,
        messages |-> <<>>]

\* executeHookAsync(plugin, hookName): the value its promise resolves to.
executeHookAsync(p, hookName, b) ==
  IF ~IsFunction(getHookFunction(p, hookName))
  THEN [called |-> FALSE, result |-> Null, messages |-> <<>>]
  ELSE IF b.outcome = "throw" \/ (b.outcome = "promise" /\ b.settled = "reject")
  THEN [called |-> TRUE, result |-> Null,
        messages |-> <<[notice |-> Notice("error", p, hookName), advice |-> ""]>>]
  ELSE LET awaited == IF b.outcome = "promise" THEN b.settled ELSE b.outcome
       IN [called |-> TRUE,
           result |-> IF IsPresent(Val(awaited, p)) THEN Val(awaited, p) ELSE Null,
           messages |-> <<>>]

NoRun == [invoked |-> <<>>, messages |-> <<>>, ret |-> Null, results |-> <<>>,
          more |-> FALSE]

\* The loops of exec, execAll and execAsync of the hybrid class: for each
\* candidate, executeHookSync / `await executeHookAsync`, then
\* `if (result !== null)` return it (exec, execAsync) or push it (execAll).
RECURSIVE hybridLoop(_, _, _, _, _)
hybridLoop(kind, items, hookName, behaviour, run) ==
  IF items = <<>> THEN run
  ELSE LET p == Head(items)
       IN IF ~IsFunction(getHookFunction(p, hookName))
          THEN hybridLoop(kind, Tail(items), hookName, behaviour, run)
          ELSE IF behaviour = <<>>
          THEN [run EXCEPT !.invoked = Append(@, p), !.more = TRUE]
          ELSE LET e == IF kind = "execAsync"
                        THEN executeHookAsync(p, hookName, Head(behaviour))
                        ELSE executeHookSync(p, hookName, Head(behaviour))
                   went == [run EXCEPT !.invoked = Append(@, p),
                                       !.messages = @ \o e.messages]
               IN IF e.result = Null
                  THEN hybridLoop(kind, Tail(items), hookName, Tail(behaviour), went)
                  ELSE IF kind = "execAll"
                  THEN hybridLoop(kind, Tail(items), hookName, Tail(behaviour),
                                  [went EXCEPT !.results = Append(@, e.result)])
                  ELSE [went EXCEPT !.ret = e.result]

hybridExec(items, hookName, behaviour) ==
  hybridLoop("exec", items, hookName, behaviour, NoRun)

hybridExecAll(items, hookName, behaviour) ==
  hybridLoop("execAll", items, hookName, behaviour, NoRun)

hybridExecAsync(items, hookName, behaviour) ==
  hybridLoop("execAsync", items, hookName, behaviour, NoRun)

(***************************************************************************)
(* PluginSystem.execAllAsync of the hybrid class and AsyncPluginSystem     *)
(* .execAll, step by step: the same loop in both,                          *)
(*   for (const plugin of pluginsWithHook) {                               *)
(*     const result = await this.executeHookAsync(plugin, hookName, ...)   *)
(*     if (result !== null) results.push(result) }                         *)
(* and the same executeHookAsync / executeHook.                            *)
(***************************************************************************)
SequentialKinds == {"PluginSystem.execAllAsync", "AsyncPluginSystem.execAll"}

\* The head of the loop: executeHookAsync gives null for a candidate whose
\* hook function is no function, and calls the hook of the first that has one.
RECURSIVE forOfAwait(_, _, _)
forOfAwait(hp, d, depth) ==
  LET items == hp[d.cands].items
  IN IF d.pos > Len(items) THEN [d EXCEPT !.st = "end", !.depth = 0]
     ELSE IF IsFunction(getHookFunction(items[d.pos], d.hookName))
          THEN [d EXCEPT !.st = "inHook", !.depth = depth,
                         !.invoked = Append(@, items[d.pos]),
                         !.fns = Append(@, getHookFunction(items[d.pos], d.hookName))]
          ELSE forOfAwait(hp, [d EXCEPT !.pos = @ + 1], depth)

\* The loop up to its first hook call.
sequentialAll(r, kind, hookName, depth) ==
  LET g == getPluginsWithHook(r, hookName)
      d == NewDispatch(g.reg, kind, hookName, g.ret)
  IN [reg |-> g.reg, ret |-> g.ret,
      d |-> IF g.ret = NoRef THEN Raised(d) ELSE forOfAwait(g.reg.heap, d, depth)]

\* Faulty variant: the promise a hook returned is not awaited, the loop goes on.
awaitHookFunctionNoAwait(d, p, outcome) ==
  IF outcome = "throw"
  THEN [d EXCEPT !.notices = Append(@, Notice("error", p, d.hookName)),
                 !.st = "awaiting", !.awaiting = "caught", !.depth = 0]
  ELSE IF outcome = "promise"
  THEN [d EXCEPT !.st = "loop"]
  ELSE [d EXCEPT !.st = "awaiting", !.awaiting = outcome, !.depth = 0]

\* `try { const result = await hookFunction(...args)`: a throw is caught at
\* once and executeHookAsync resolves to null ("caught"), anything else is
\* awaited; either way the loop waits for executeHookAsync.
awaitHookFunction(d, p, outcome) ==
  IF outcome = "throw"
  THEN [d EXCEPT !.notices = Append(@, Notice("error", p, d.hookName)),
                 !.st = "awaiting", !.awaiting = "caught", !.depth = 0]
  ELSE [d EXCEPT !.st = "awaiting", !.awaiting = outcome, !.depth = 0]

\* The loop after `await this.executeHookAsync(...)`: the value the hook gave
\* has settled as `settled`.
afterExecuteHookAsync(d, p, settled) ==
  IF settled = "reject"
  THEN [d EXCEPT !.notices = Append(@, Notice("error", p, d.hookName)),
                 !.awaiting = "", !.st = "loop"]
  ELSE IF IsPresent(Val(settled, p))
  THEN [d EXCEPT !.results = Append(@, Val(settled, p)), !.awaiting = "",
                 !.st = "loop"]
  ELSE [d EXCEPT !.awaiting = "", !.st = "loop"]

(***************************************************************************)
(* The state machine.                                                      *)
(***************************************************************************)
\* What a step reports: the operation, the getPluginsWithHook call it made
\* (hookName, ret, and prev: what the previous call for hookName returned if no
\* use/remove/clear came between), the arguments of use() or of the
\* constructor (inputs), the plugins they flatten to (given), the inputs that
\* were called as factories (called), what use, remove or clear returned
\* (returned), the duplicates use() warned about, the
\* dispatch that completed, and the hook call that returned (plugin, outcome).
Ev(op) ==
  [op |-> op, hookName |-> "", ret |-> NoRef, prev |-> NoRef, warned |-> <<>>,
   inputs |-> <<>>, given |-> <<>>, called |-> <<>>, returned |-> "",
   changed |-> FALSE, cached |-> {}, done |-> NoDisp,
   plugin |-> 0, outcome |-> "", removeCalled |-> FALSE]

\* A step that called use, remove or clear: whether the plugin sequence is
\* another one after it, and the hook names that were cached before it.
EvMutator(op, before, after) ==
  [Ev(op) EXCEPT !.changed = Items(before, before.plugins) # Items(after, after.plugins),
                 !.cached = {h \in HookNames : before.hookCache[h] # NoRef}]

EvLookup(op, r, hookName, ret) ==
  [Ev(op) EXCEPT !.hookName = hookName, !.ret = ret, !.prev = r.lastRet[hookName]]

RECURSIVE Dedup(_, _)
Dedup(s, seen) ==
  IF s = <<>> THEN <<>>
  ELSE IF Head(s) \in seen THEN Dedup(Tail(s), seen)
       ELSE <<Head(s)>> \o Dedup(Tail(s), seen \cup {Head(s)})

\* The references something still holds, in a fixed order; every other array
\* is garbage.
Roots(r, ev) ==
  Dedup(<<r.plugins, r.sortedPlugins>>
          \o [i \in DOMAIN HookSeq |-> r.hookCache[HookSeq[i]]]
          \o [i \in DOMAIN HookSeq |-> r.lastRet[HookSeq[i]]]
          \o [i \in DOMAIN r.disp |-> r.disp[i].cands]
          \o <<ev.ret, ev.prev>>,
        {NoRef})

\* Store the state: garbage is dropped and the references are renumbered in
\* the order of Roots (which reference an array has is not observable, only
\* whether two references are the same).
Commit(reg, reported) ==
  \E r \in {reg}, ev \in {reported} :
    \E roots \in {Roots(r, ev)} :
      LET Ren(ref) == IF ref = NoRef THEN NoRef
                      ELSE CHOOSE i \in DOMAIN roots : roots[i] = ref
      IN /\ heap' = [i \in DOMAIN roots |-> r.heap[roots[i]]]
         /\ plugins' = Ren(r.plugins)
         /\ sortedPlugins' = Ren(r.sortedPlugins)
         /\ hookCache' = [h \in HookNames |-> Ren(r.hookCache[h])]
         /\ isDirty' = r.isDirty
         /\ lastRet' = [h \in HookNames |-> Ren(r.lastRet[h])]
         /\ disp' = [i \in DOMAIN r.disp |-> [r.disp[i] EXCEPT !.cands = Ren(@)]]
         /\ event' = [ev EXCEPT !.ret = Ren(@), !.prev = Ren(@)]

\* use, remove and clear were called: dispatches in flight have seen a
\* mutator, and earlier lookups are no longer "with no mutation between".
Mutator(r) ==
  [r EXCEPT !.lastRet = [h \in HookNames |-> NoRef],
            !.disp = [i \in DOMAIN @ |->
                        [@[i] EXCEPT !.mutatedAt =
                                       IF @ = -1 THEN Len(r.disp[i].invoked) ELSE @]]]

Looked(r, hookName, ret) == [r EXCEPT !.lastRet[hookName] = ret]

RemoveAt(s, i) == SubSeq(s, 1, i - 1) \o SubSeq(s, i + 1, Len(s))

\* Faulty variant: execAllAsync lists its results in the order in which they
\* became known.
ReturnedInSettleOrder(d) ==
  LET known == SelectSeq(d.log, LAMBDA e : e[2] \in {"value", "falsy"})
  IN [d EXCEPT !.depth = 0,
               !.ret = IF d.st = "return" THEN d.ret ELSE Null,
               !.results = IF d.kind = "execAllAsync"
                           THEN [k \in DOMAIN known |->
                                   Val(known[k][2], d.captured[known[k][1]].plugin)]
                           ELSE d.results]

\* The return value of a dispatch that left its loop.
Returned(d) ==
  [d EXCEPT !.depth = 0,
            !.ret = IF d.st = "return" THEN d.ret ELSE Null,
            !.results = IF d.kind = "execAllAsync"
                        THEN presentResults(d.captured) ELSE d.results]

IsOver(d) == d.st \in {"end", "return", "raised"}

\* Dispatch i of r becomes d; a dispatch that is over leaves the table and is
\* reported by the step.
Put(r, i, after, ev) ==
  \E d \in {after} :
    IF IsOver(d)
    THEN Commit([r EXCEPT !.disp = RemoveAt(@, i)], [ev EXCEPT !.done = Returned(d)])
    ELSE Commit([r EXCEPT !.disp = [j \in 1..(IF i > Len(@) THEN i ELSE Len(@)) |->
                                      IF j = i THEN d ELSE @[j]]], ev)

\* new PluginSystem(plugins): two empty arrays, then this.use(...plugins).
Constructed(pluginInputs) ==
  LET r0 == [heap |-> <<[items |-> <<>>, frozen |-> FALSE],
                        [items |-> <<>>, frozen |-> FALSE]>>,
             plugins |-> 1, sortedPlugins |-> 2, isDirty |-> FALSE,
             hookCache |-> [h \in HookNames |-> NoRef],
             disp |-> <<>>, lastRet |-> [h \in HookNames |-> NoRef]]
  IN use(r0, pluginInputs).reg

\* What the constructor was given.
EvNew(pluginInputs) ==
  [Ev("new") EXCEPT !.inputs = pluginInputs,
                    !.given = flattenPlugins(pluginInputs),
                    !.called = flattenLoop(pluginInputs, NoneFlattened).called]

Init ==
  \E pluginInputs \in UseInputs :
    LET r == Constructed(pluginInputs)
    IN /\ heap = r.heap
       /\ plugins = r.plugins
       /\ hookCache = r.hookCache
       /\ sortedPlugins = r.sortedPlugins
       /\ isDirty = r.isDirty
       /\ disp = r.disp
       /\ lastRet = r.lastRet
       /\ event = EvNew(pluginInputs)
       /\ calls = 0

Use(pluginInputs) ==
  \E u \in {use(This, pluginInputs)} :
    Commit(Mutator(u.reg),
           [EvMutator("use", This, u.reg)
              EXCEPT !.warned = u.warned, !.inputs = pluginInputs,
                     !.given = flattenPlugins(pluginInputs),
                     !.called = flattenLoop(pluginInputs, NoneFlattened).called,
                     !.returned = useReturn(This, pluginInputs)])

Remove(pluginName) ==
  \E r \in {remove(This, pluginName)} :
    Commit(Mutator(r),
           [EvMutator("remove", This, r)
              EXCEPT !.returned = removeReturn(This, pluginName)])

Clear ==
  \E r \in {clear(This)} :
    Commit(Mutator(r),
           [EvMutator("clear", This, r) EXCEPT !.returned = clearReturn(This)])

GetPluginsWithHook(hookName) ==
  \E g \in {getPluginsWithHook(This, hookName)} :
    Commit(Looked(g.reg, hookName, g.ret),
           EvLookup("getPluginsWithHook", This, hookName, g.ret))

\* A dispatch is called, by the host or by the hook that is running.
Exec(hookName) ==
  \E e \in {exec(This, hookName, StackDepth(disp) + 1)} :
    Put(Looked(e.reg, hookName, e.ret), Len(disp) + 1, e.d,
        EvLookup("exec", This, hookName, e.ret))

ExecAll(hookName) ==
  \E e \in {execAll(This, hookName, StackDepth(disp) + 1)} :
    Put(Looked(e.reg, hookName, e.ret), Len(disp) + 1, e.d,
        EvLookup("execAll", This, hookName, e.ret))

ExecAsync(hookName) ==
  \E e \in {execAsync(This, hookName, StackDepth(disp) + 1)} :
    Put(Looked(e.reg, hookName, e.ret), Len(disp) + 1, e.d,
        EvLookup("execAsync", This, hookName, e.ret))

ExecAllAsync(hookName) ==
  \E e \in {execAllAsync(This, hookName)} :
    Put(Looked(e.reg, hookName, e.ret), Len(disp) + 1, e.d,
        EvLookup("execAllAsync", This, hookName, e.ret))

Last(s) == s[Len(s)]

\* The hook that is running returns (or throws): the loop that called it goes
\* on, up to its next hook call, its await or its return.
HookReturn(outcome) ==
  /\ StackDepth(disp) > 0
  /\ \E i \in {Top(disp)} :
       \E d \in {[disp[i] EXCEPT !.raw = Append(@, outcome)]} :
         LET p == Last(d.invoked)
             ev == [Ev("hookReturn") EXCEPT !.plugin = p, !.outcome = outcome,
                                            !.hookName = d.hookName]
             next(d1) == IF d1.st = "loop"
                         THEN forOf(heap, [d1 EXCEPT !.pos = @ + 1], d.depth)
                         ELSE d1
             logged == [d EXCEPT !.st = "loop", !.log = Append(@, outcome)]
         IN CASE d.kind \in {"exec", "execAll"} ->
                   \E d1 \in {syncBody(logged, p, outcome)} : Put(This, i, next(d1), ev)
              [] d.kind = "execAsync" ->
                   \E d1 \in {asyncBody(IF outcome = "throw" THEN logged
                                        ELSE [d EXCEPT !.st = "loop"], p, outcome)} :
                     Put(This, i, next(d1), ev)
              [] d.kind = "execAllAsync" ->
                   Put(This, i,
                       thenCatch(IF outcome = "promise" THEN d
                                 ELSE [d EXCEPT !.log = Append(@, <<d.pos, outcome>>)],
                                 outcome), ev)

\* The value execAsync awaits has settled and the call stack is empty: the
\* async function goes on.
Resume(i, settled) ==
  /\ StackDepth(disp) = 0
  /\ i \in DOMAIN disp
  /\ disp[i].kind = "execAsync" /\ disp[i].st = "awaiting"
  /\ disp[i].awaiting \in {"promise", settled}
  /\ \E d \in {disp[i]} :
       \E d1 \in {afterAwait([d EXCEPT !.log = Append(@, settled)],
                             Last(d.invoked), settled)} :
         Put(This, i,
             IF d1.st = "loop" THEN forOf(heap, [d1 EXCEPT !.pos = @ + 1], 1) ELSE d1,
             [Ev("resume") EXCEPT !.plugin = Last(d.invoked), !.outcome = settled,
                                  !.hookName = d.hookName])

Queued(d) == {j \in DOMAIN d.captured : d.captured[j].s = "queued"}

\* Faulty variant: a then-callback runs only when no promise of an earlier
\* hook is pending.
InvokeNextAfterSettled(i) ==
  /\ StackDepth(disp) = 0
  /\ i \in DOMAIN disp
  /\ disp[i].kind = "execAllAsync" /\ Queued(disp[i]) # {}
  /\ \A k \in DOMAIN disp[i].captured : disp[i].captured[k].s # "pending"
  /\ \E d \in {disp[i]} :
       \E j \in {k \in Queued(d) : \A l \in Queued(d) : k <= l} :
         Put(This, i,
             [d EXCEPT !.captured[j].s = "inHook", !.pos = j, !.depth = 1,
                       !.st = "inHook",
                       !.invoked = Append(@, d.captured[j].plugin),
                       !.fns = Append(@, d.captured[j].fn)],
             [Ev("invokeNext") EXCEPT !.hookName = d.hookName])

\* The next then-callback of an execAllAsync runs: it calls the hook.
InvokeNext(i) ==
  /\ StackDepth(disp) = 0
  /\ i \in DOMAIN disp
  /\ disp[i].kind = "execAllAsync" /\ Queued(disp[i]) # {}
  /\ \E d \in {disp[i]} :
       \E j \in {k \in Queued(d) : \A l \in Queued(d) : k <= l} :
         Put(This, i,
             [d EXCEPT !.captured[j].s = "inHook", !.pos = j, !.depth = 1,
                       !.st = "inHook",
                       !.invoked = Append(@, d.captured[j].plugin),
                       !.fns = Append(@, d.captured[j].fn)],
             [Ev("invokeNext") EXCEPT !.hookName = d.hookName])

\* A promise returned by a hook of an execAllAsync settles.
Settle(i, j, settled) ==
  /\ StackDepth(disp) = 0
  /\ i \in DOMAIN disp
  /\ disp[i].kind = "execAllAsync"
  /\ j \in DOMAIN disp[i].captured
  /\ disp[i].captured[j].s = "pending"
  /\ Put(This, i,
         settle([disp[i] EXCEPT !.log = Append(@, <<j, settled>>)], j, settled),
         [Ev("settle") EXCEPT !.plugin = disp[i].captured[j].plugin,
                              !.outcome = settled, !.hookName = disp[i].hookName])

\* Faulty variant: Promise.all resolves only when some promise came to a
\* present value.
AwaitAllNeedsResult(i) ==
  /\ StackDepth(disp) = 0
  /\ i \in DOMAIN disp
  /\ disp[i].kind = "execAllAsync"
  /\ \A j \in DOMAIN disp[i].captured : disp[i].captured[j].s = "settled"
  /\ presentResults(disp[i].captured) # <<>>
  /\ Put(This, i, [disp[i] EXCEPT !.st = "end"],
         [Ev("awaitAll") EXCEPT !.hookName = disp[i].hookName])

\* Promise.all has resolved: execAllAsync returns.
AwaitAll(i) ==
  /\ StackDepth(disp) = 0
  /\ i \in DOMAIN disp
  /\ disp[i].kind = "execAllAsync"
  /\ \A j \in DOMAIN disp[i].captured : disp[i].captured[j].s = "settled"
  /\ Put(This, i, [disp[i] EXCEPT !.st = "end"],
         [Ev("awaitAll") EXCEPT !.hookName = disp[i].hookName])

\* PluginSystem.execAllAsync (hybrid class) or AsyncPluginSystem.execAll is
\* called.
SequentialAll(kind, hookName) ==
  \E e \in {sequentialAll(This, kind, hookName, StackDepth(disp) + 1)} :
    Put(Looked(e.reg, hookName, e.ret), Len(disp) + 1, e.d,
        EvLookup(kind, This, hookName, e.ret))

\* The hook a sequential dispatch called returns (or throws).
SequentialHookReturn(outcome) ==
  /\ StackDepth(disp) > 0
  /\ \E i \in {Top(disp)} :
       /\ disp[i].kind \in SequentialKinds
       /\ \E d \in {[disp[i] EXCEPT !.raw = Append(@, outcome)]} :
            \E d1 \in {awaitHookFunction(d, Last(d.invoked), outcome)} :
              Put(This, i,
                  IF d1.st = "loop"
                  THEN forOfAwait(heap, [d1 EXCEPT !.pos = @ + 1], d.depth)
                  ELSE d1,
                  [Ev("hookReturn") EXCEPT !.plugin = Last(d.invoked),
                                           !.outcome = outcome,
                                           !.hookName = d.hookName])

\* What a sequential dispatch awaits has settled and the call stack is empty:
\* the loop goes on, up to its next hook call or its return.
SequentialResume(i, settled) ==
  /\ StackDepth(disp) = 0
  /\ i \in DOMAIN disp
  /\ disp[i].kind \in SequentialKinds /\ disp[i].st = "awaiting"
  /\ \/ disp[i].awaiting \in {"promise", settled}
     \/ disp[i].awaiting = "caught" /\ settled = "null"
  /\ \E d \in {disp[i]} :
       \E d1 \in {afterExecuteHookAsync(
                     [d EXCEPT !.log = Append(@, IF d.awaiting = "caught"
                                                 THEN "throw" ELSE settled)],
                     Last(d.invoked), settled)} :
         Put(This, i, forOfAwait(heap, [d1 EXCEPT !.pos = @ + 1], 1),
             [Ev("resume") EXCEPT !.plugin = Last(d.invoked), !.outcome = settled,
                                  !.hookName = d.hookName])

(***************************************************************************)
(* Spec: the host drives the registry and the resolver.                    *)
(***************************************************************************)
Next ==
  \/ \E pluginInputs \in UseInputs : Use(pluginInputs) /\ UNCHANGED calls
  \/ \E pluginName \in Names \cup {"zz"} : Remove(pluginName) /\ UNCHANGED calls
  \/ Clear /\ UNCHANGED calls
  \/ \E hookName \in HookNames : GetPluginsWithHook(hookName) /\ UNCHANGED calls

Spec == Init /\ [][Next]_vars

(***************************************************************************)
(* SpecDispatch: the host dispatches hooks, one dispatch at a time, on a   *)
(* registry built by the constructor; a hook does whatever a function can  *)
(* do to its caller (SyncOutcomes), a promise settles any way it can.      *)
(***************************************************************************)
DispatchInputs ==
  {<<>>,
   <<PlainInput(3)>>,
   <<PlainInput(6), PlainInput(4)>>,
   <<ArrayInput(<<3, 2>>), PlainInput(1)>>,
   <<PlainInput(5), PlainInput(2)>>,
   <<FactoryInput(<<4, 2>>, TRUE), PlainInput(3)>>,
   <<PlainInput(1), ArrayInput(<<2, 5>>)>>}

InitDispatch ==
  \E pluginInputs \in DispatchInputs :
    LET r == Constructed(pluginInputs)
    IN /\ heap = r.heap
       /\ plugins = r.plugins
       /\ hookCache = r.hookCache
       /\ sortedPlugins = r.sortedPlugins
       /\ isDirty = r.isDirty
       /\ disp = r.disp
       /\ lastRet = r.lastRet
       /\ event = EvNew(pluginInputs)
       /\ calls = 0

\* The host's calls are made when no dispatch is in flight.
Idle == disp = <<>> /\ UNCHANGED calls

NextDispatch ==
  \/ \E hookName \in HookNames : Idle /\ GetPluginsWithHook(hookName)
  \/ \E hookName \in HookNames : Idle /\ Exec(hookName)
  \/ \E hookName \in HookNames : Idle /\ ExecAll(hookName)
  \/ \E hookName \in HookNames : Idle /\ ExecAsync(hookName)
  \/ \E hookName \in HookNames : Idle /\ ExecAllAsync(hookName)
  \/ \E outcome \in SyncOutcomes : HookReturn(outcome) /\ UNCHANGED calls
  \/ \E settled \in Settlements : Resume(1, settled) /\ UNCHANGED calls
  \/ InvokeNext(1) /\ UNCHANGED calls
  \/ \E j \in PluginIds, settled \in Settlements :
       Settle(1, j, settled) /\ UNCHANGED calls
  \/ AwaitAll(1) /\ UNCHANGED calls

SpecDispatch == InitDispatch /\ [][NextDispatch]_vars

(***************************************************************************)
(* SpecDispatchFair: SpecDispatch when every hook that was called returns  *)
(* or throws, every promise a hook returned settles, and the job queue     *)
(* runs the continuations that are ready (the then-callbacks, the code     *)
(* behind an await).                                                       *)
(***************************************************************************)
HookReturns == \E outcome \in SyncOutcomes : HookReturn(outcome) /\ UNCHANGED calls

Resumes == \E settled \in Settlements : Resume(1, settled) /\ UNCHANGED calls

Settles ==
  \E j \in PluginIds, settled \in Settlements : Settle(1, j, settled) /\ UNCHANGED calls

Jobs == (InvokeNext(1) \/ AwaitAll(1)) /\ UNCHANGED calls

SpecDispatchFair ==
  /\ InitDispatch /\ [][NextDispatch]_vars
  /\ WF_vars(HookReturns) /\ WF_vars(Resumes) /\ WF_vars(Settles) /\ WF_vars(Jobs)

(***************************************************************************)
(* SpecSequential: the host calls execAllAsync of the hybrid class or      *)
(* execAll of AsyncPluginSystem, one dispatch at a time; a hook does       *)
(* whatever a function can do, a promise settles any way it can, or never. *)
(***************************************************************************)
NextSequential ==
  \/ \E kind \in SequentialKinds, hookName \in HookNames :
       Idle /\ SequentialAll(kind, hookName)
  \/ \E outcome \in SyncOutcomes : SequentialHookReturn(outcome) /\ UNCHANGED calls
  \/ \E settled \in Settlements : SequentialResume(1, settled) /\ UNCHANGED calls

SpecSequential == InitDispatch /\ [][NextSequential]_vars

(***************************************************************************)
(* SpecView: the host calls getPlugins() and keeps what it returned while  *)
(* it goes on calling use, remove and clear. event.prev is the array the   *)
(* host holds, event.removeCalled whether remove() was called since the    *)
(* host got it.                                                            *)
(***************************************************************************)
GetPlugins ==
  Commit(This, [Ev("getPlugins") EXCEPT !.ret = getPlugins(This),
                                        !.prev = getPlugins(This)])

\* The event of a mutator called by a host that holds event.prev.
Keeping(ev) ==
  [ev EXCEPT !.prev = event.prev,
             !.removeCalled = event.prev # NoRef
                                /\ (event.removeCalled \/ ev.op = "remove")]

UseKeeping(pluginInputs) ==
  \E u \in {use(This, pluginInputs)} :
    Commit(Mutator(u.reg), Keeping(EvMutator("use", This, u.reg)))

RemoveKeeping(pluginName) ==
  \E r \in {remove(This, pluginName)} :
    Commit(Mutator(r), Keeping(EvMutator("remove", This, r)))

ClearKeeping ==
  \E r \in {clear(This)} :
    Commit(Mutator(r), Keeping(EvMutator("clear", This, r)))

NextView ==
  \/ GetPlugins /\ UNCHANGED calls
  \/ \E pluginInputs \in UseInputs : UseKeeping(pluginInputs) /\ UNCHANGED calls
  \/ \E pluginName \in Names \cup {"zz"} : RemoveKeeping(pluginName) /\ UNCHANGED calls
  \/ ClearKeeping /\ UNCHANGED calls

SpecView == Init /\ [][NextView]_vars

(***************************************************************************)
(* SpecReentrant: while dispatches are in flight, the hook that is running *)
(* (or, between the turns of an async dispatch, any other code) calls the  *)
(* registry: use, remove, clear, getPluginsWithHook, another dispatch.     *)
(***************************************************************************)
ReentrantInputs == {<<PlainInput(2), PlainInput(3)>>}

ReentrantUses == {<<PlainInput(1)>>}

\* The hooks return nothing, so that a dispatch goes through all its candidates.
ReentrantOutcomes == {"null"}

InitReentrant ==
  \E pluginInputs \in ReentrantInputs :
    LET r == Constructed(pluginInputs)
    IN /\ heap = r.heap
       /\ plugins = r.plugins
       /\ hookCache = r.hookCache
       /\ sortedPlugins = r.sortedPlugins
       /\ isDirty = r.isDirty
       /\ disp = r.disp
       /\ lastRet = r.lastRet
       /\ event = EvNew(pluginInputs)
       /\ calls = 0

\* A call of the API, made while a dispatch is in flight.
Call == calls < MaxCalls /\ calls' = calls + 1

Reentrant == disp # <<>> /\ Call

NextReentrant ==
  \/ \E pluginInputs \in ReentrantUses : Reentrant /\ Use(pluginInputs)
  \/ Reentrant /\ Remove("c")
  \/ Reentrant /\ Clear
  \/ Reentrant /\ GetPluginsWithHook("h1")
  \/ Call /\ Exec("h1")
  \/ Call /\ ExecAll("h1")
  \/ Call /\ ExecAsync("h1")
  \/ Call /\ ExecAllAsync("h1")
  \/ \E outcome \in ReentrantOutcomes : HookReturn(outcome) /\ UNCHANGED calls
  \/ \E i \in DOMAIN disp, settled \in ReentrantOutcomes :
       Resume(i, settled) /\ UNCHANGED calls
  \/ \E i \in DOMAIN disp : InvokeNext(i) /\ UNCHANGED calls
  \/ \E i \in DOMAIN disp : AwaitAll(i) /\ UNCHANGED calls

SpecReentrant == InitReentrant /\ [][NextReentrant]_vars

(***************************************************************************)
(* Properties.                                                             *)
(***************************************************************************)
\* The plugin sequence of the registry.
Registered == heap[plugins].items

IndexOf(s, x) == CHOOSE i \in DOMAIN s : s[i] = x

\* An absent priority counts as 0.
EffectivePriority(p) ==
  IF PluginObjects[p].priority = {} THEN 0
  ELSE CHOOSE n \in PluginObjects[p].priority : TRUE

\* p comes before q in the stable descending-priority sort of base.
SortsBefore(base, p, q) ==
  \/ EffectivePriority(p) > EffectivePriority(q)
  \/ /\ EffectivePriority(p) = EffectivePriority(q)
     /\ IndexOf(base, p) < IndexOf(base, q)

\* s is the stable descending-priority sort of base, filtered to the plugins
\* the resolver takes to implement hookName.
IsSortedView(s, base, hookName) ==
  /\ Range(s) = {p \in Range(base) : HasHook(p, hookName)}
  /\ \A i, j \in DOMAIN s : i < j => SortsBefore(base, s[i], s[j])

\* C1: no two plugins of the registry's plugin sequence have the same name,
\* whatever use(), remove() and clear() calls (and constructor inputs) came.
C1_UniqueNames ==
  \A i, j \in DOMAIN Registered :
    i # j => PluginObjects[Registered[i]].name # PluginObjects[Registered[j]].name

\* A use() skipped a duplicate name while other plugins are registered.
C1_Witness ==
  /\ event.op = "use"
  /\ event.warned # <<>>
  /\ Len(Registered) >= 2

\* C2: every entry of the hook cache is the stable descending-priority sort of
\* the current plugin sequence filtered to the plugins implementing the hook;
\* a use() that accepts a plugin, a remove() that changes the plugin count and
\* clear() leave no entry at all; a lookup returns the view of the current
\* plugin sequence.
C2_CacheCoherent ==
  /\ \A h \in HookNames :
       hookCache[h] # NoRef => IsSortedView(heap[hookCache[h]].items, Registered, h)
  /\ (event.op \in {"use", "remove"} /\ event.changed) \/ event.op = "clear"
       => \A h \in HookNames : hookCache[h] = NoRef
  /\ event.op = "getPluginsWithHook"
       => IsSortedView(heap[event.ret].items, Registered, event.hookName)

\* A remove() that changed the plugin count emptied a cache that had an entry
\* for every hook name.
C2_Witness ==
  /\ event.op = "remove"
  /\ event.changed
  /\ event.cached = HookNames
  /\ Len(Registered) >= 1
  /\ \A h \in HookNames : hookCache[h] = NoRef

\* C8 as claimed: for every hook name, two getPluginsWithHook calls with no
\* use(), remove() or clear() between them return the same object.
C8_SameObject ==
  event.op = "getPluginsWithHook" /\ event.prev # NoRef => event.ret = event.prev

(***************************************************************************)
(* Properties of a dispatch.                                               *)
(***************************************************************************)
\* The dispatches to look at in a state: those in flight and the one the
\* latest step completed.
Dispatches ==
  Range(disp) \cup (IF event.done.kind = "none" THEN {} ELSE {event.done})

SyncDispatches == {d \in Dispatches : d.kind \in {"exec", "execAll"}}

Completed(kind) == event.done.kind = kind

\* The candidates a dispatch can call: those with a function for the hook.
CallableCands(d) ==
  SelectSeq(d.cands0, LAMBDA p : IsFunction(getHookFunction(p, d.hookName)))

IsPrefix(s, t) == Len(s) <= Len(t) /\ s = SubSeq(t, 1, Len(s))

PresentKinds == {"value", "falsy"}

\* The notices of the given level a sync dispatch owes for the hook calls that
\* had the given outcome, in call order.
RECURSIVE NoticesFor(_, _, _, _, _)
NoticesFor(invoked, log, hookName, outcome, level) ==
  IF log = <<>> THEN <<>>
  ELSE (IF Head(log) = outcome
        THEN <<Notice(level, Head(invoked), hookName)>> ELSE <<>>)
       \o NoticesFor(Tail(invoked), Tail(log), hookName, outcome, level)

\* The values a sync dispatch got from the hook calls that gave a present one.
RECURSIVE PresentFor(_, _)
PresentFor(invoked, log) ==
  IF log = <<>> THEN <<>>
  ELSE (IF Head(log) \in PresentKinds
        THEN <<Val(Head(log), Head(invoked))>> ELSE <<>>)
       \o PresentFor(Tail(invoked), Tail(log))

\* A sync dispatch goes through its callable candidates in order, one call
\* each, and stops early only when exec got a present result.
GoesOn(d) ==
  /\ IsPrefix(d.invoked, CallableCands(d))
  /\ d.st \in {"inHook", "end", "return"}
  /\ d.st = "inHook" => Len(d.log) = Len(d.invoked) - 1
  /\ d.st = "end" => d.invoked = CallableCands(d) /\ Len(d.log) = Len(d.invoked)
  /\ d.st = "return" =>
       /\ d.kind = "exec"
       /\ Len(d.log) = Len(d.invoked)
       /\ Last(d.log) \in PresentKinds
  /\ d.kind = "exec" =>
       \A k \in DOMAIN d.log : d.log[k] \in PresentKinds => k = Len(d.log) /\ d.st = "return"

\* C3: getPluginsWithHook returns the plugins implementing the hook by
\* descending priority, an absent priority counting as 0, plugins of equal
\* priority in registration order; a dispatch calls its candidates in the
\* order of that sequence.
C3_PriorityOrder ==
  /\ event.ret # NoRef =>
       IsSortedView(heap[event.ret].items, Registered, event.hookName)
  /\ \A d \in Dispatches :
       /\ IsSortedView(d.cands0, Registered, d.hookName)
       /\ \A i, j \in DOMAIN d.invoked :
            i < j => IndexOf(d.cands0, d.invoked[i]) < IndexOf(d.cands0, d.invoked[j])

\* An execAll called three plugins: the one without a priority (0) between the
\* one of priority 0 registered before it and the one of priority -1.
C3_Witness ==
  /\ Completed("execAll")
  /\ event.done.invoked = <<2, 1, 3>>
  /\ Registered = <<3, 2, 1>>

\* C4 as claimed: exec calls the candidates of getPluginsWithHook one by one
\* in order; every candidate before the first one with a present result is
\* called exactly once, none after it, and exec returns that result, or null
\* when every candidate yields absent or fails.
C4_FirstPresent ==
  Completed("exec") =>
    LET d == event.done
    IN IF d.ret = Null
       THEN d.invoked = d.cands0
       ELSE /\ d.ret.by \in Range(d.cands0)
            /\ d.invoked = SubSeq(d.cands0, 1, IndexOf(d.cands0, d.ret.by))
            /\ d.ret = Val(Last(d.log), d.ret.by)

\* C5 as claimed: execAll calls every candidate of getPluginsWithHook exactly
\* once in order and returns the present results in call order.
C5_EveryCandidate ==
  Completed("execAll") =>
    /\ event.done.invoked = event.done.cands0
    /\ event.done.results = PresentFor(event.done.invoked, event.done.log)

\* C6: a hook that throws during exec or execAll does not abort the dispatch
\* and no exception reaches the caller; one error notice naming the plugin and
\* the hook is emitted per throw, the candidate counts as absent, and the
\* remaining candidates are still called in order.
C6_ThrowIsolated ==
  \A d \in SyncDispatches :
    /\ d.st # "raised"
    /\ SelectSeq(d.notices, LAMBDA n : n.level = "error")
         = NoticesFor(d.invoked, d.log, d.hookName, "throw", "error")
    /\ \A k \in DOMAIN d.log :
         d.log[k] = "throw" =>
           /\ d.ret.by # d.invoked[k]
           /\ \A v \in Range(d.results) : v.by # d.invoked[k]
    /\ GoesOn(d)

\* An exec whose first candidate threw returned the value of the second.
C6_Witness ==
  /\ Completed("exec")
  /\ event.done.log = <<"throw", "value">>
  /\ event.done.ret = Val("value", event.done.invoked[2])
  /\ Len(event.done.notices) = 1

\* C7: a hook that returns a Promise during exec or execAll is not awaited;
\* one warning and no error notice naming the plugin and the hook is emitted,
\* the candidate counts as absent, the dispatch goes on with the next
\* candidate, and the Promise is neither returned by exec nor in the result of
\* execAll.
C7_PromiseInSync ==
  \A d \in SyncDispatches :
    /\ SelectSeq(d.notices, LAMBDA n : n.level = "warn")
         = NoticesFor(d.invoked, d.log, d.hookName, "promise", "warn")
    /\ \A k \in DOMAIN d.log :
         d.log[k] = "promise" =>
           /\ Notice("error", d.invoked[k], d.hookName) \notin Range(d.notices)
           /\ d.ret.by # d.invoked[k]
           /\ \A v \in Range(d.results) : v.by # d.invoked[k]
           /\ (k = Len(d.log) => d.st \in {"inHook", "end"})
    /\ d.ret.kind # "promise"
    /\ \A v \in Range(d.results) : v.kind # "promise"
    /\ d.results = IF d.kind = "execAll" THEN PresentFor(d.invoked, d.log) ELSE <<>>
    /\ IsPrefix(d.invoked, CallableCands(d))

\* An execAll whose first candidate returned a Promise collected the value of
\* the second only.
C7_Witness ==
  /\ Completed("execAll")
  /\ event.done.log = <<"promise", "value">>
  /\ event.done.results = <<Val("value", event.done.invoked[2])>>
  /\ event.done.notices = <<Notice("warn", event.done.invoked[1], event.done.hookName)>>

\* C9: a dispatch works on the candidate sequence it got when it started:
\* use(), remove() and clear() called by its hooks or between its turns change
\* neither the candidates it goes on to call nor their order.
C9_CapturedCandidates ==
  \A d \in Dispatches :
    /\ d \in Range(disp) /\ d.cands # NoRef => heap[d.cands].items = d.cands0
    /\ d.kind = "execAllAsync" /\ d.captured # <<>> =>
         [j \in DOMAIN d.captured |-> d.captured[j].plugin] = d.cands0
    /\ IsPrefix(d.invoked, CallableCands(d))
    /\ d.st = "end" => d.invoked = CallableCands(d)

\* A dispatch completed after calling a plugin that had been removed from the
\* registry while its first hook was running.
C9_Witness ==
  /\ event.done.kind # "none"
  /\ event.done.mutatedAt = 1
  /\ Len(event.done.invoked) = 2
  /\ event.done.invoked[2] \notin Range(Registered)

\* C10: once a hook called during a dispatch has changed the registry, every
\* getPluginsWithHook call and every dispatch started afterwards is computed
\* from the updated registry, not from a sequence cached before.
C10_FreshAfterMutation ==
  event.ret # NoRef =>
    /\ IsSortedView(heap[event.ret].items, Registered, event.hookName)
    /\ event.op # "getPluginsWithHook" =>
         LET d == IF event.done.kind = "none" THEN Last(disp) ELSE event.done
         IN d.kind = event.op /\ d.cands0 = heap[event.ret].items

\* A lookup or dispatch start got another sequence than the one a dispatch
\* still in flight, during which the registry was changed, had got.
C10_Witness ==
  /\ event.ret # NoRef
  /\ \E i \in DOMAIN disp :
       /\ disp[i].mutatedAt >= 0
       /\ disp[i].hookName = event.hookName
       /\ disp[i].cands0 # heap[event.ret].items
       /\ (event.op = "getPluginsWithHook" \/ i < Len(disp))

(***************************************************************************)
(* Properties of the async dispatches.                                     *)
(***************************************************************************)
AsyncDispatches(kind) == {d \in Dispatches : d.kind = kind}

\* C11: execAsync calls the hook of a candidate only after the call of the
\* candidate before it has settled; a hook that returns a plain value and one
\* that returns a Promise are treated alike (what counts is the settled
\* value); the first present settled value is returned and no later candidate
\* is called.
C11_OneAtATime ==
  \A d \in AsyncDispatches("execAsync") :
    /\ IsPrefix(d.invoked, CallableCands(d))
    /\ Len(d.log) = (IF IsOver(d) THEN Len(d.invoked) ELSE Len(d.invoked) - 1)
    /\ \A k \in DOMAIN d.log :
         /\ d.raw[k] = "promise" \/ d.raw[k] = d.log[k]
         /\ d.log[k] \in PresentKinds => k = Len(d.log) /\ d.st = "return"
    /\ d.st = "return" =>
         Last(d.log) \in PresentKinds /\ d.ret = Val(Last(d.log), Last(d.invoked))
    /\ d.st = "end" => d.invoked = CallableCands(d) /\ d.ret = Null

\* An execAsync awaited a Promise that resolved to null, then returned the
\* plain value of the next candidate, leaving a third candidate uncalled.
C11_Witness ==
  /\ Completed("execAsync")
  /\ event.done.raw = <<"promise", "value">>
  /\ event.done.log = <<"null", "value">>
  /\ event.done.ret = Val("value", event.done.invoked[2])
  /\ Len(CallableCands(event.done)) = 3

\* C12: execAllAsync calls the hook of every candidate, in candidate order,
\* without waiting for the result of an earlier candidate: whenever no hook
\* is running and a candidate has not been called yet, its call can be made,
\* whatever promises of earlier candidates are pending; the dispatch does not
\* complete before every hook has been called.
C12_NoWaiting ==
  /\ \A i \in DOMAIN disp :
       disp[i].kind = "execAllAsync" =>
         /\ IsPrefix(disp[i].invoked, CallableCands(disp[i]))
         /\ StackDepth(disp) = 0 /\ disp[i].invoked # CallableCands(disp[i])
              => ENABLED InvokeNext(i)
  /\ Completed("execAllAsync") => event.done.invoked = CallableCands(event.done)

\* All three hooks of an execAllAsync have been called while the promise the
\* first one returned is still pending.
C12_Witness ==
  \E i \in DOMAIN disp :
    /\ disp[i].kind = "execAllAsync"
    /\ Len(disp[i].captured) = 3
    /\ disp[i].captured[1].s = "pending"
    /\ Len(disp[i].invoked) = 3

\* The results execAllAsync owes for candidates j..n: for each candidate, in
\* candidate order, the value its hook call came to, if that is present.
RECURSIVE InCandidateOrder(_, _)
InCandidateOrder(d, j) ==
  IF j > Len(d.cands0) THEN <<>>
  ELSE (IF \E o \in PresentKinds : <<j, o>> \in Range(d.log)
        THEN <<Val(CHOOSE o \in PresentKinds : <<j, o>> \in Range(d.log), d.cands0[j])>>
        ELSE <<>>)
       \o InCandidateOrder(d, j + 1)

\* C13: execAllAsync resolves to the present results in the order of the
\* candidates, whatever the order in which the results settled.
C13_CandidateOrder ==
  Completed("execAllAsync") =>
    event.done.results = InCandidateOrder(event.done, 1)

\* The second candidate's result was known before the promise of the first
\* settled; the result lists the first candidate's value first.
C13_Witness ==
  /\ Completed("execAllAsync")
  /\ event.done.log = << <<2, "value">>, <<1, "value">> >>
  /\ event.done.results
       = <<Val("value", event.done.cands0[1]), Val("value", event.done.cands0[2])>>

\* What the hook calls of an async dispatch came to, in the order known:
\* [plugin, how], how being "throw" for a synchronous throw, "reject" for a
\* rejected Promise, else the kind of the settled value.
Settled(d) ==
  IF d.kind = "execAsync"
  THEN [k \in DOMAIN d.log |-> [plugin |-> d.invoked[k], how |-> d.log[k]]]
  ELSE [k \in DOMAIN d.log |-> [plugin |-> d.cands0[d.log[k][1]], how |-> d.log[k][2]]]

Failed(d) == SelectSeq(Settled(d), LAMBDA e : e.how \in {"throw", "reject"})

\* C14: in execAsync and execAllAsync a hook that throws and a hook whose
\* Promise rejects are handled alike: one error notice naming the plugin and
\* the hook, the candidate counts as absent, nothing is raised to the caller,
\* and the other candidates are called and give their results as without it.
C14_FailureIsolated ==
  \A d \in AsyncDispatches("execAsync") \cup AsyncDispatches("execAllAsync") :
    /\ d.st # "raised"
    /\ d.notices = [k \in DOMAIN Failed(d) |->
                      Notice("error", Failed(d)[k].plugin, d.hookName)]
    /\ \A k \in DOMAIN Failed(d) :
         /\ d.ret.by # Failed(d)[k].plugin
         /\ \A v \in Range(d.results) : v.by # Failed(d)[k].plugin
    /\ IsPrefix(d.invoked, CallableCands(d))
    /\ d.st = "end" => d.invoked = CallableCands(d)
    /\ d.st = "end" /\ d.kind = "execAllAsync" =>
         d.results = InCandidateOrder(d, 1)
    /\ d.st = "return" => d.ret = Val(Last(d.log), Last(d.invoked))

\* An execAllAsync whose first hook threw and whose second hook returned a
\* Promise that rejected resolved to the value of the third, with two error
\* notices.
C14_Witness ==
  /\ Completed("execAllAsync")
  /\ event.done.raw = <<"throw", "promise", "value">>
  /\ <<2, "reject">> \in Range(event.done.log)
  /\ Len(event.done.notices) = 2
  /\ event.done.results = <<Val("value", event.done.cands0[3])>>

(***************************************************************************)
(* Properties of the registry's operations.                                *)
(***************************************************************************)
NameOf(p) == PluginObjects[p].name

NamesIn(s) == {NameOf(s[k]) : k \in DOMAIN s}

\* The elements of s at the indices in keep, in the order of s.
AtIndices(s, keep) ==
  LET idx == SelectSeq([k \in DOMAIN s |-> k], LAMBDA k : k \in keep)
  IN [k \in DOMAIN idx |-> s[idx[k]]]

\* The indices of the plugins of `given` whose name is free: not registered
\* in `before` and not the name of a plugin earlier in `given`.
FreeIn(before, given) ==
  {k \in DOMAIN given :
     /\ NameOf(given[k]) \notin NamesIn(before)
     /\ \A m \in 1..(k - 1) : NameOf(given[m]) # NameOf(given[k])}

\* C15: a plugin given to use() whose name is that of a registered plugin, or
\* of a plugin accepted earlier in the call, is discarded with one warning;
\* the plugins registered before stay as they are; every other plugin of the
\* call is appended, in the order given.
C15_FirstRegistrationWins ==
  [][event'.op = "use" =>
       LET before == heap[plugins].items
           given == event'.given
       IN /\ heap'[plugins'].items
               = before \o AtIndices(given, FreeIn(before, given))
          /\ event'.warned
               = AtIndices(given, DOMAIN given \ FreeIn(before, given))]_vars

\* use() was given three plugins, the first with the name of a registered
\* plugin: it warned about that one and accepted the two after it.
C15_Witness ==
  /\ event.op = "use"
  /\ event.given = <<3, 2, 1>>
  /\ event.warned = <<3>>
  /\ Registered = <<5, 2, 1>>

\* C16 as claimed: a use() that accepts no plugin leaves the dirty flag and
\* the hook cache as they were.
C16_UseAcceptingNothing ==
  [][event'.op = "use" /\ heap'[plugins'].items = heap[plugins].items =>
       /\ isDirty' = isDirty
       /\ \A h \in HookNames : (hookCache'[h] = NoRef) <=> (hookCache[h] = NoRef)]_vars

\* C17: remove(name) when no registered plugin has that name changes
\* nothing: the plugin sequence has the same plugins in the same order, the
\* dirty flag is as before, and the hook cache holds the same arrays for the
\* same hook names; the call returns the registry.
C17_RemoveAbsentName ==
  /\ \A pluginName \in (Names \cup {"zz"}) \ NamesIn(Registered) :
       LET r == remove(This, pluginName)
       IN /\ Items(r, r.plugins) = Registered
          /\ r.isDirty = isDirty
          /\ r.hookCache = hookCache
          /\ \A h \in HookNames :
               hookCache[h] # NoRef => r.heap[r.hookCache[h]] = heap[hookCache[h]]
          /\ r.sortedPlugins = sortedPlugins
          /\ r.heap[r.sortedPlugins] = heap[sortedPlugins]
  /\ event.op = "remove" /\ ~event.changed =>
       {h \in HookNames : hookCache[h] # NoRef} = event.cached

\* A remove() of a name nobody has left a cache with an entry per hook name,
\* and a registry of two plugins, as they were.
C17_Witness ==
  /\ event.op = "remove"
  /\ ~event.changed
  /\ event.cached = HookNames
  /\ \A h \in HookNames : hookCache[h] # NoRef
  /\ ~isDirty
  /\ Len(Registered) = 2

\* C18: remove(name) of a registered plugin deletes that plugin and no
\* other, keeps the others in their order, marks the registry dirty and
\* empties the hook cache; a use() of a plugin with that name after it is
\* accepted and appended at the end.
C18_RemoveRegistered ==
  /\ \A pluginName \in NamesIn(Registered) :
       LET r == remove(This, pluginName)
           kept == Items(r, r.plugins)
       IN /\ kept = SelectSeq(Registered, LAMBDA p : NameOf(p) # pluginName)
          /\ Len(kept) = Len(Registered) - 1
          /\ r.isDirty
          /\ \A h \in HookNames : r.hookCache[h] = NoRef
          /\ \A p \in PluginIds :
               NameOf(p) = pluginName =>
                 LET u == use(r, <<PlainInput(p)>>)
                 IN /\ Items(u.reg, u.reg.plugins) = Append(kept, p)
                    /\ u.warned = <<>>
  /\ event.op = "remove" /\ event.changed =>
       isDirty /\ \A h \in HookNames : hookCache[h] = NoRef

\* remove() took the second of three plugins out of a registry whose lookups
\* were cached.
C18_Witness ==
  /\ event.op = "remove"
  /\ event.changed
  /\ Registered = <<3, 1>>
  /\ event.cached # {}
  /\ isDirty

\* What getPluginsWithHook(hookName) returns on registry r: the plugins.
LookupOn(r, hookName) ==
  LET g == getPluginsWithHook(r, hookName)
  IN Items(g.reg, g.ret)

\* C19: after clear() the plugin sequence and the sorted view are empty, the
\* dirty flag is clean and the hook cache has no entry; as long as no plugin
\* is registered, getPluginsWithHook returns an empty sequence and exec
\* returns null for every hook name; plugins registered by a use() after
\* clear() are found by the lookups that follow.
C19_Cleared ==
  /\ LET r == clear(This)
     IN /\ Items(r, r.plugins) = <<>>
        /\ Items(r, r.sortedPlugins) = <<>>
        /\ ~r.isDirty
        /\ \A h \in HookNames : r.hookCache[h] = NoRef
        /\ \A pluginInputs \in UseInputs, h \in HookNames :
             LET u == use(r, pluginInputs).reg
             IN IsSortedView(LookupOn(u, h), Items(u, u.plugins), h)
  /\ event.op = "clear" =>
       /\ Registered = <<>> /\ heap[sortedPlugins].items = <<>>
       /\ ~isDirty
       /\ \A h \in HookNames : hookCache[h] = NoRef
  /\ Registered = <<>> =>
       \A h \in HookNames :
         /\ LookupOn(This, h) = <<>>
         /\ LET d == exec(This, h, 1).d
            IN IsOver(d) /\ d.invoked = <<>> /\ Returned(d).ret = Null

\* clear() emptied a registry of three plugins whose lookups were cached for
\* every hook name.
C19_Witness ==
  /\ event.op = "clear"
  /\ event.changed
  /\ event.cached = HookNames
  /\ Registered = <<>>

\* C20: getPlugins() lists the plugins accepted and not removed since, in
\* the order they were accepted: use() appends what it accepts, remove()
\* deletes the plugins of one name, clear() deletes all, and lookups and the
\* start of a dispatch (which sort the registry) leave the list as it is,
\* whatever the priorities.
C20_RegistrationOrder ==
  [][LET before == Items(This, getPlugins(This))
         after == heap'[plugins'].items
     IN /\ event'.op = "use" =>
             after = before \o AtIndices(event'.given, FreeIn(before, event'.given))
        /\ event'.op = "remove" =>
             \E pluginName \in Names \cup {"zz"} :
               after = SelectSeq(before, LAMBDA p : NameOf(p) # pluginName)
        /\ event'.op = "clear" => after = <<>>
        /\ event'.op = "getPluginsWithHook" => after = before
        /\ \A h \in HookNames :
             \A r \in {exec(This, h, 1).reg, execAll(This, h, 1).reg,
                       execAsync(This, h, 1).reg, execAllAsync(This, h).reg} :
               Items(r, getPlugins(r)) = before]_vars

\* A lookup has sorted a registry whose registration order is not its
\* priority order; getPlugins() still gives the registration order.
C20_Witness ==
  /\ event.op = "getPluginsWithHook"
  /\ ~isDirty
  /\ heap[sortedPlugins].items = <<2, 1, 3>>
  /\ Items(This, getPlugins(This)) = <<3, 2, 1>>

(***************************************************************************)
(* Properties of what the registry and the resolver hand out.              *)
(***************************************************************************)
\* What a caller can make of a sequence it holds: append a plugin, delete the
\* first element, replace the first element, truncate.
CallerEdits(s) ==
  {Append(s, p) : p \in PluginIds}
  \cup (IF s = <<>> THEN {}
        ELSE {Tail(s), <<>>} \cup {<<p>> \o Tail(s) : p \in PluginIds \ {Head(s)}})

\* C21 as claimed: whatever a caller does to the sequence getPlugins()
\* returned (append, delete, replace, truncate), the registry's plugin
\* sequence stays as it was and no two registered plugins share a name.
C21_ViewNotInternal ==
  \A items \in CallerEdits(Items(This, getPlugins(This))) :
    LET r == CallerWrite(This, getPlugins(This), items)
        after == Items(r, r.plugins)
    IN /\ after = Registered
       /\ \A i, j \in DOMAIN after : i # j => NameOf(after[i]) # NameOf(after[j])

\* C22 as claimed: a getPluginsWithHook call whose result is empty returns a
\* frozen empty array (never no array, never a mutable one), on the first
\* lookup of the hook name and on the lookups served from the cache.
C22_FrozenEmpty ==
  event.op = "getPluginsWithHook" =>
    /\ event.ret # NoRef
    /\ heap[event.ret].items = <<>> => heap[event.ret].frozen

(***************************************************************************)
(* Properties of hook results and hook functions.                          *)
(***************************************************************************)
\* C23: a hook result of 0, '' or false is a present result, only null and
\* undefined are absent: exec and execAsync return the falsy value of the
\* first candidate that gives one and call no candidate after it (and go on
\* past null and undefined); execAll and execAllAsync list every falsy result
\* and no null or undefined.
C23_FalsyIsPresent ==
  \A d \in Dispatches :
    /\ d.kind \in {"exec", "execAsync"} =>
         /\ \A k \in DOMAIN d.log :
              /\ d.log[k] = "falsy" =>
                   /\ k = Len(d.log) /\ k = Len(d.invoked)
                   /\ d.st = "return"
                   /\ d.ret = Val("falsy", d.invoked[k])
              /\ d.log[k] \in {"null", "undefined"} /\ k = Len(d.log) =>
                   d.st # "return" /\ d.ret = Null
         /\ d.st = "end" => \A k \in DOMAIN d.log : d.log[k] \notin PresentKinds
    /\ d.kind = "execAll" =>
         /\ \A k \in DOMAIN d.log :
              d.log[k] = "falsy" => Val("falsy", d.invoked[k]) \in Range(d.results)
         /\ \A v \in Range(d.results) : v.kind \in PresentKinds
         /\ Len(d.results) = Cardinality({k \in DOMAIN d.log : d.log[k] \in PresentKinds})
    /\ d.kind = "execAllAsync" /\ IsOver(d) =>
         /\ \A e \in Range(d.log) :
              e[2] = "falsy" => Val("falsy", d.cands0[e[1]]) \in Range(d.results)
         /\ \A v \in Range(d.results) : v.kind \in PresentKinds
         /\ Len(d.results) = Cardinality({e \in Range(d.log) : e[2] \in PresentKinds})

\* An exec whose first candidate returned undefined returned the falsy value
\* of the second and left the third uncalled.
C23_Witness ==
  /\ Completed("exec")
  /\ event.done.log = <<"undefined", "falsy">>
  /\ event.done.ret = Val("falsy", event.done.invoked[2])
  /\ Len(CallableCands(event.done)) = 3

\* C24 as claimed: getPluginsWithHook(h) returns exactly the registered
\* plugins for which the dispatcher's hook-function lookup yields a function
\* (a callable direct attribute h or a callable entry h of `hooks`); a plugin
\* whose attribute or entry is there but is no function is not returned.
C24_ExactlyCallable ==
  event.op = "getPluginsWithHook" =>
    \A p \in Range(Registered) :
      p \in Range(heap[event.ret].items)
        <=> IsFunction(getHookFunction(p, event.hookName))

\* The hook function of (p, hookName) as claimed: the direct attribute if it
\* is a function, else the entry of `hooks` if it is a function, else none.
ClaimedHookFunction(p, hookName) ==
  LET plugin == PluginObjects[p]
  IN IF plugin.direct[hookName] = "fn" THEN "direct"
     ELSE IF plugin.hooks = "object" /\ plugin.nested[hookName] = "fn" THEN "nested"
     ELSE "none"

\* C25 as claimed: a dispatch that goes through all its candidates calls, for
\* each candidate, the direct attribute if that is a function, else the entry
\* of `hooks` if that is a function; in particular the nested function of a
\* candidate whose direct attribute is some non-callable value is called.
C25_DirectElseNested ==
  \A d \in Dispatches :
    /\ \A p \in Range(d.invoked) :
         getHookFunction(p, d.hookName) = ClaimedHookFunction(p, d.hookName)
    /\ d.st = "end" =>
         d.invoked
           = SelectSeq(d.cands0, LAMBDA p : ClaimedHookFunction(p, d.hookName) # "none")

\* The plugins with a function for hookName both as a direct attribute and
\* as an entry of `hooks`.
HasBoth(hookName) ==
  {p \in PluginIds : /\ PluginObjects[p].direct[hookName] = "fn"
                     /\ PluginObjects[p].hooks = "object"
                     /\ PluginObjects[p].nested[hookName] = "fn"}

Occurrences(s, x) == Cardinality({k \in DOMAIN s : s[k] = x})

\* C26: for a plugin that has a function for the hook both as a direct
\* attribute and in its `hooks` container, every dispatch calls the direct
\* one, once, and never the nested one; the plugin is in the sequence
\* getPluginsWithHook returns exactly once.
C26_DirectWins ==
  /\ \A d \in Dispatches :
       /\ Len(d.fns) = Len(d.invoked)
       /\ \A k \in DOMAIN d.invoked :
            d.invoked[k] \in HasBoth(d.hookName) =>
              /\ d.fns[k] = "direct"
              /\ Occurrences(d.invoked, d.invoked[k]) = 1
       /\ d.st = "end" => HasBoth(d.hookName) \cap Range(Registered) \subseteq Range(d.invoked)
  /\ event.ret # NoRef =>
       \A p \in HasBoth(event.hookName) \cap Range(Registered) :
         Occurrences(heap[event.ret].items, p) = 1

\* An execAll went through three candidates, one of them with the hook both
\* as a direct attribute and in `hooks`: it called that plugin's direct
\* function.
C26_Witness ==
  /\ Completed("execAll")
  /\ Len(event.done.invoked) = 3
  /\ \E k \in DOMAIN event.done.invoked :
       /\ event.done.invoked[k] \in HasBoth(event.done.hookName)
       /\ event.done.fns[k] = "direct"

\* The plugins whose `hooks` container is absent, null or not an object.
NoContainer == {p \in PluginIds : PluginObjects[p].hooks # "object"}

LookupOps == {"getPluginsWithHook", "exec", "execAll", "execAsync", "execAllAsync"}

\* C27: a plugin whose `hooks` container is absent, null or not an object has
\* no nested hooks and is no error: use() accepts it like any plugin, every
\* getPluginsWithHook call returns a sequence and no dispatch raises, and the
\* plugin is a candidate for exactly the hooks it has as a function-valued
\* direct attribute, which is the function a dispatch calls.
C27_NoNestedHooks ==
  /\ \A d \in Dispatches : d.st # "raised"
  /\ event.op \in LookupOps => event.ret # NoRef
  /\ event.ret # NoRef =>
       \A p \in NoContainer \cap Range(Registered) :
         p \in Range(heap[event.ret].items)
           <=> PluginObjects[p].direct[event.hookName] = "fn"
  /\ \A d \in Dispatches, p \in NoContainer :
       /\ p \in Range(d.cands0)
            <=> p \in Range(Registered) /\ PluginObjects[p].direct[d.hookName] = "fn"
       /\ \A k \in DOMAIN d.invoked : d.invoked[k] = p => d.fns[k] = "direct"
       /\ d.st = "end" /\ p \in Range(d.cands0) => p \in Range(d.invoked)
  /\ \A p \in NoContainer :
       NameOf(p) \notin NamesIn(Registered) =>
         LET u == use(This, <<PlainInput(p)>>)
         IN Items(u.reg, u.reg.plugins) = Append(Registered, p) /\ u.warned = <<>>

\* An execAll went through a registry with a plugin whose `hooks` is null,
\* which it called, and one whose `hooks` is not an object, which has no
\* direct function for the hook and was no candidate.
C27_Witness ==
  /\ Completed("execAll")
  /\ Registered = <<1, 2, 5>>
  /\ PluginObjects[1].hooks = "null" /\ PluginObjects[5].hooks = "nonobject"
  /\ event.done.cands0 = <<1, 2>>
  /\ event.done.invoked = <<1, 2>>

\* No registered plugin has a hook function for hookName.
NoImplementer(hookName) ==
  \A p \in Range(Registered) : ~IsFunction(getHookFunction(p, hookName))

\* C28: when no registered plugin implements the hook (the registry may be
\* empty), a dispatch calls no hook and emits no notice; exec and execAsync
\* return null within the call, execAll returns an empty sequence within the
\* call, and execAllAsync resolves to an empty sequence, at once or as soon
\* as its already settled promises have been awaited.
C28_NobodyImplements ==
  /\ \A d \in Dispatches :
       NoImplementer(d.hookName) =>
         /\ d.invoked = <<>> /\ d.raw = <<>>
         /\ d.notices = <<>>
         /\ d.ret = Null
         /\ d.results = <<>>
         /\ d.st # "end" =>
              /\ d.kind = "execAllAsync" /\ d.st = "open"
              /\ \A j \in DOMAIN d.captured :
                   d.captured[j].s = "settled" /\ d.captured[j].v = Null
              /\ ENABLED AwaitAll(1)
  /\ event.op \in {"exec", "execAll", "execAsync"} /\ NoImplementer(event.hookName) =>
       event.done.kind = event.op
  /\ event.op = "execAllAsync" /\ Registered = <<>> => event.done.kind = event.op

\* An execAllAsync for a hook whose only candidate has no function for it
\* resolved to an empty sequence without a call or a notice.
C28_Witness ==
  /\ Completed("execAllAsync")
  /\ event.op = "awaitAll"
  /\ Registered # <<>>
  /\ NoImplementer(event.done.hookName)
  /\ event.done.cands0 # <<>>
  /\ event.done.results = <<>>
  /\ event.done.invoked = <<>>

(***************************************************************************)
(* Properties of the inputs of use() and of the constructor.               *)
(***************************************************************************)
\* The plugins the inputs from position i on stand for, each input in its
\* place: a plugin for itself, an array for its elements, a factory for what
\* it returns.
RECURSIVE SplicedFrom(_, _)
SplicedFrom(pluginInputs, i) ==
  IF i > Len(pluginInputs) THEN <<>>
  ELSE pluginInputs[i].ps \o SplicedFrom(pluginInputs, i + 1)

FactoryPositions(pluginInputs) ==
  SelectSeq([k \in DOMAIN pluginInputs |-> k],
            LAMBDA k : pluginInputs[k].kind = "factory")

\* C29: use() and the constructor flatten their inputs left to right, a
\* plugin as it is, an array and the result of a factory (one plugin or an
\* array) spliced in the input's place, each factory being called once; the
\* plugins accepted are appended to the registry in the flattened order.
C29_FlattenedInOrder ==
  /\ event.op \in {"new", "use"} =>
       /\ event.given = SplicedFrom(event.inputs, 1)
       /\ event.called = FactoryPositions(event.inputs)
  /\ event.op = "new" =>
       Registered = AtIndices(event.given, FreeIn(<<>>, event.given))
  /\ \A pluginInputs \in UseInputs :
       LET u == use(This, pluginInputs)
           flattened == SplicedFrom(pluginInputs, 1)
       IN Items(u.reg, u.reg.plugins)
            = Registered \o AtIndices(flattened, FreeIn(Registered, flattened))

\* use() was given a plugin and, after it, a factory returning an array of
\* two: it called the factory once and appended the factory's plugins in
\* their order behind what was registered.
C29_Witness ==
  /\ event.op = "use"
  /\ event.inputs = <<PlainInput(3), FactoryInput(<<1, 2>>, TRUE)>>
  /\ event.given = <<3, 1, 2>>
  /\ event.called = <<2>>
  /\ Registered = <<5, 1, 2>>

(***************************************************************************)
(* Properties of what the lookups and the dispatches leave alone.          *)
(***************************************************************************)
MutatorOps == {"use", "remove", "clear"}

\* C30: a step of getPluginsWithHook, exec, execAll, execAsync or
\* execAllAsync (the call, a hook's return, the turns of an async dispatch)
\* leaves the registry's plugin sequence as it was, the same array with the
\* same plugins in the same order, also after the registry has been changed
\* by a hook and has to be sorted again; getPlugins() changes nothing at all.
\* Only steps of use(), remove() and clear() change the sequence.
C30_DispatchFrame ==
  [][/\ event'.op \notin MutatorOps =>
          /\ heap'[plugins'].items = heap[plugins].items
          /\ heap'[plugins'].frozen = heap[plugins].frozen
     /\ \A h \in HookNames :
          LET g == getPluginsWithHook(This, h)
          IN /\ g.reg.plugins = getPlugins(This)
             /\ g.reg.heap[g.reg.plugins] = heap[plugins]]_vars

\* A lookup made while a dispatch is in flight sorted the registry a hook had
\* added a plugin to: the sorted view has another order than the plugin
\* sequence, which is as use() left it.
C30_Witness ==
  /\ event.op \in LookupOps
  /\ \E i \in DOMAIN disp : disp[i].mutatedAt >= 0
  /\ ~isDirty
  /\ heap[sortedPlugins].items = <<2, 1, 3>>
  /\ Registered = <<2, 3, 1>>

(***************************************************************************)
(* Properties of what the mutators return.                                 *)
(***************************************************************************)
\* C31: use(), remove() and clear() return the registry they were called on,
\* whether use() accepted a plugin or not, whether remove() found the name or
\* not, and whether the registry is empty or not.
C31_ReturnsThis ==
  /\ event.op \in MutatorOps => event.returned = "this"
  /\ \A pluginInputs \in UseInputs : useReturn(This, pluginInputs) = "this"
  /\ \A pluginName \in Names \cup {"zz"} : removeReturn(This, pluginName) = "this"
  /\ clearReturn(This) = "this"

\* remove() of a name nobody has, on an empty registry, returned the registry.
C31_Witness ==
  /\ event.op = "remove"
  /\ ~event.changed
  /\ Registered = <<>>
  /\ event.returned = "this"

(***************************************************************************)
(* Properties of the sorted view.                                          *)
(***************************************************************************)
\* s is the stable descending-priority sort of base.
IsSortOf(s, base) ==
  /\ Len(s) = Len(base) /\ Range(s) = Range(base)
  /\ \A i, j \in DOMAIN s : i < j => SortsBefore(base, s[i], s[j])

\* r and q have the same sorted view: the same array with the same content.
SameSortedView(r, q) ==
  r.sortedPlugins = q.sortedPlugins /\ Items(r, r.sortedPlugins) = Items(q, q.sortedPlugins)

\* C32: while the dirty flag is clean the sorted view is the stable
\* descending-priority sort of the plugin sequence. The view is computed anew
\* only by a lookup that misses the hook cache while the flag is dirty: not
\* by use() or remove(), not by a lookup on a clean registry, so that a
\* lookup of one hook name followed by a lookup of the other sorts once.
C32_SortedOnceWhenDirty ==
  /\ ~isDirty => IsSortOf(heap[sortedPlugins].items, Registered)
  /\ \A pluginInputs \in UseInputs : SameSortedView(use(This, pluginInputs).reg, This)
  /\ \A pluginName \in Names \cup {"zz"} : SameSortedView(remove(This, pluginName), This)
  /\ clear(This).sortedPlugins = sortedPlugins
  /\ \A h \in HookNames :
       LET g == getPluginsWithHook(This, h)
       IN /\ ~g.reg.isDirty
          /\ IsSortOf(Items(g.reg, g.reg.sortedPlugins), Registered)
          /\ ~SameSortedView(g.reg, This) => isDirty /\ hookCache[h] = NoRef
          /\ ~isDirty => SameSortedView(g.reg, This)
          /\ \A h2 \in HookNames :
               SameSortedView(getPluginsWithHook(g.reg, h2).reg, g.reg)

\* Both hook names have been looked up on a registry whose priority order is
\* not its registration order: the flag is clean and the view is sorted.
C32_Witness ==
  /\ event.op = "getPluginsWithHook"
  /\ event.prev = NoRef
  /\ \A h \in HookNames : hookCache[h] # NoRef
  /\ ~isDirty
  /\ Registered = <<3, 2, 1>>
  /\ heap[sortedPlugins].items = <<2, 1, 3>>

(***************************************************************************)
(* Properties of the progress of a dispatch.                               *)
(***************************************************************************)
\* No plugin occurs twice in s.
NoRepeat(s) == \A i, j \in DOMAIN s : i # j => s[i] # s[j]

\* C33: when every hook that is called returns (or throws) and every promise
\* a hook returned settles, a dispatch that is in flight (exec, execAll,
\* execAsync or execAllAsync) completes; and at every moment a dispatch has
\* called the hook of each of its candidates at most once.
C33_Completes ==
  /\ [](\A d \in Dispatches :
          NoRepeat(d.invoked) /\ IsPrefix(d.invoked, CallableCands(d)))
  /\ disp # <<>> ~> (disp = <<>> /\ event.done.kind # "none")

\* An execAsync completed after awaiting the promises of all three of its
\* candidates, each called once.
C33_Witness ==
  /\ Completed("execAsync")
  /\ event.done.raw = <<"promise", "promise", "promise">>
  /\ Len(event.done.log) = 3
  /\ event.done.invoked = CallableCands(event.done)

(***************************************************************************)
(* Properties of the two implementations of the dispatcher.                *)
(***************************************************************************)
\* The behaviour of the hooks a completed dispatch called, call by call.
BehaviourOf(d) ==
  [k \in DOMAIN d.raw |->
     [outcome |-> d.raw[k],
      settled |-> IF d.kind = "execAsync" THEN d.log[k] ELSE d.raw[k]]]

\* What the hybrid class does on the candidates and the hook behaviour of d.
HybridRun(d) ==
  IF d.kind = "exec" THEN hybridExec(d.cands0, d.hookName, BehaviourOf(d))
  ELSE IF d.kind = "execAll" THEN hybridExecAll(d.cands0, d.hookName, BehaviourOf(d))
  ELSE hybridExecAsync(d.cands0, d.hookName, BehaviourOf(d))

HybridKinds == {"exec", "execAll", "execAsync"}

\* C34 as claimed: on the same registry and the same hook behaviour, exec,
\* execAll and execAsync of the hybrid class and of the single class return
\* the same value, call the same hooks in the same order and emit the same
\* warnings and errors in the same order.
C34_SameBehaviour ==
  event.done.kind \in HybridKinds =>
    LET d == event.done
        run == HybridRun(d)
    IN /\ ~run.more
       /\ run.invoked = d.invoked
       /\ run.ret = d.ret
       /\ run.results = d.results
       /\ run.messages = Messages(d)

\* C34 as amended: ... the same value, the same hook calls in the same order
\* and notices of the same level for the same plugin and hook in the same
\* order; the warning for a Promise in a sync dispatch ends in another advice.
C34_SameUpToAdvice ==
  event.done.kind \in HybridKinds =>
    LET d == event.done
        run == HybridRun(d)
    IN /\ ~run.more
       /\ run.invoked = d.invoked
       /\ run.ret = d.ret
       /\ run.results = d.results
       /\ [k \in DOMAIN run.messages |-> run.messages[k].notice] = d.notices
       /\ \A k \in DOMAIN run.messages :
            run.messages[k].advice = Messages(d)[k].advice
              \/ (d.kind \in {"exec", "execAll"} /\ d.notices[k].level = "warn")

\* An execAll went through a hook that threw, one that returned a falsy value
\* and one that returned a value; the hybrid class gives the same two results
\* and the same error.
C34_Witness ==
  /\ Completed("execAll")
  /\ event.done.raw = <<"throw", "falsy", "value">>
  /\ Len(HybridRun(event.done).results) = 2
  /\ Len(HybridRun(event.done).messages) = 1

(***************************************************************************)
(* Properties of the sequential execAllAsync / execAll (SpecSequential).   *)
(***************************************************************************)
SequentialDispatches == {d \in Dispatches : d.kind \in SequentialKinds}

\* A step calls a hook for dispatch i.
InvokesFor(i) ==
  /\ i \in DOMAIN disp'
  /\ Len(disp'[i].invoked) > Len(disp[i].invoked)

\* C35: execAllAsync of the hybrid class and execAll of AsyncPluginSystem call
\* the hook of a candidate only when the results of all the hooks called
\* before have settled: at most one call is unsettled at any moment, and while
\* the dispatch waits for a result no step but the settling of that result
\* calls a hook, so that a result that never settles keeps every later
\* candidate from being called.
C35_Sequential ==
  /\ [](\A d \in SequentialDispatches :
          /\ Len(d.invoked) <= Len(d.log) + 1
          /\ IsPrefix(d.invoked, CallableCands(d)))
  /\ [][\A i \in DOMAIN disp :
          (disp[i].kind \in SequentialKinds /\ InvokesFor(i)) =>
            /\ disp[i].st = "awaiting"
            /\ Len(disp'[i].log) = Len(disp[i].log) + 1
            /\ Len(disp'[i].log) = Len(disp[i].invoked)]_vars

\* The second hook was called after the result of the first had settled; the
\* promise it returned is pending and a third candidate has a hook to call.
C35_Witness ==
  \E d \in Range(disp) :
    /\ d.kind \in SequentialKinds
    /\ d.st = "awaiting" /\ d.awaiting = "promise"
    /\ Len(d.invoked) = 2 /\ Len(d.log) = 1
    /\ Len(CallableCands(d)) = 3

(***************************************************************************)
(* Properties of a sequence getPlugins() returned earlier (SpecView).      *)
(***************************************************************************)
\* The host holds a sequence getPlugins() returned and has called a mutator
\* since.
HeldAcross(ops) == event.prev # NoRef /\ event.op \in ops

\* C36 as claimed: after any later use(), remove() or clear() a sequence
\* getPlugins() returned earlier equals the registry's current plugin
\* sequence, what a fresh getPlugins() call returns.
C36_LiveView ==
  HeldAcross(MutatorOps) =>
    Items(This, event.prev) = Items(This, getPlugins(This))

\* C36 as amended: after any later use() or clear(), with no remove() called
\* since it was returned, a sequence getPlugins() returned earlier is the
\* array a fresh getPlugins() call returns, and so equals the registry's
\* current plugin sequence.
C36_LiveUntilRemove ==
  (HeldAcross(MutatorOps) /\ ~event.removeCalled) =>
    /\ event.prev = getPlugins(This)
    /\ Items(This, event.prev) = Registered

\* The host holds the sequence of a registry that was empty, with nothing
\* cached, when use() registered a plugin, and no remove() was called since
\* the host got it: the sequence the host holds has that one plugin.
C36_Witness ==
  /\ HeldAcross({"use"}) /\ ~event.removeCalled
  /\ event.changed
  /\ Len(Items(This, event.prev)) = 1
  /\ event.cached = {}

====
